---- MODULE Spec2Model ----
(***************************************************************************)
(* Model of the energy_square_backend metric engine and its configuration  *)
(* manager.                                                                *)
(*                                                                         *)
(*   - DataPresentationService (app/services/community_dashboard_service)  *)
(*   - DemandResponseService   (app/services/demand_response_service)      *)
(*   - CommunityConfigManager  (app/services/community_config)             *)
(*   - CommunityConfigDocument (app/models/community_config)               *)
(*   - ItalianMarketDataTransformer (app/services/data_transformation)     *)
(*                                                                         *)
(* Python floats are modelled as exact rationals [k |-> "num", n, d] with  *)
(* d > 0 and gcd(n, d) = 1, plus the special values NaN, +Infinity and     *)
(* -Infinity; binary rounding error is not modelled.                       *)
(***************************************************************************)
EXTENDS Integers, Sequences, FiniteSets, TLC

VARIABLES
    data,       \* DataPresentationService.data: the loaded snapshot
    heap,       \* CommunityConfigDocument objects, by object identity
    mgrCache,   \* CommunityConfigManager._config_cache (object id or NoRef)
    svcConfig,  \* DataPresentationService._config (object id or NoRef)
    store,      \* the MongoDB singleton document (or NoDoc)
    clock,      \* datetime.utcnow() as a logical clock of document writes
    raw,        \* raw source rows read by the transformer
    canon,      \* ItalianMarketDataTransformer.transformed_data
    artifact,   \* artifacts/transformed_data.json (<<>>: no file)
    result      \* the last call: its name, arguments, outcome and pre-state

vars == <<data, heap, mgrCache, svcConfig, store, clock, raw, canon, artifact, result>>

-----------------------------------------------------------------------------
(* Numbers                                                                 *)

Abs(x) == IF x < 0 THEN -x ELSE x

RECURSIVE GCD(_, _)
GCD(a, b) == IF b = 0 THEN a ELSE GCD(b, a % b)

\* A finite float n/d, normalised (d > 0).
Num(n, d) ==
    LET g == GCD(Abs(n), d)
    IN  [k |-> "num", n |-> n \div g, d |-> d \div g]

Int2F(i) == Num(i, 1)
Zero == Int2F(0)
NaN == [k |-> "nan", n |-> 0, d |-> 1]
PosInf == [k |-> "inf", n |-> 0, d |-> 1]
NegInf == [k |-> "ninf", n |-> 0, d |-> 1]
\* The outcome of an expression that raised an exception.
Raised == [k |-> "raise", n |-> 0, d |-> 1]

IsNum(x) == x.k = "num"
IsNaN(x) == x.k = "nan"

\* IEEE arithmetic on finite values and NaN (NaN propagates).
FAdd(a, b) ==
    IF IsNaN(a) \/ IsNaN(b) THEN NaN ELSE Num(a.n * b.d + b.n * a.d, a.d * b.d)
FNeg(a) == IF IsNaN(a) THEN NaN ELSE Num(-a.n, a.d)
FSub(a, b) == FAdd(a, FNeg(b))
FMul(a, b) ==
    IF IsNaN(a) \/ IsNaN(b) THEN NaN ELSE Num(a.n * b.n, a.d * b.d)
\* a / b for b # 0 (the callers guard their denominators).
FDiv(a, b) ==
    IF IsNaN(a) \/ IsNaN(b) THEN NaN
    ELSE IF b.n > 0 THEN Num(a.n * b.d, a.d * b.n)
    ELSE Num(-(a.n * b.d), a.d * (-b.n))

\* Comparisons: every comparison with NaN is False.
FGt(a, b) == IsNum(a) /\ IsNum(b) /\ a.n * b.d > b.n * a.d
FLt(a, b) == FGt(b, a)
FLe(a, b) == IsNum(a) /\ IsNum(b) /\ a.n * b.d <= b.n * a.d
FEq(a, b) == IsNum(a) /\ IsNum(b) /\ a.n * b.d = b.n * a.d

\* Python's max(a, b) and min(a, b): the first argument unless the second wins.
FMax(a, b) == IF FGt(b, a) THEN b ELSE a
FMin(a, b) == IF FLt(b, a) THEN b ELSE a

\* Python's round(x, 2): to the nearest hundredth, ties to even.
Round2(x) ==
    IF ~IsNum(x) THEN x
    ELSE LET s == x.n * 100
             q == s \div x.d
             r == s % x.d
             up == (2 * r > x.d) \/ (2 * r = x.d /\ q % 2 = 1)
         IN  Num(IF up THEN q + 1 ELSE q, 100)

\* Python's round(x, ndigits) with 10^ndigits = scale, ties to even.
RoundTo(x, scale) ==
    IF ~IsNum(x) THEN x
    ELSE LET s == x.n * scale
             q == s \div x.d
             r == s % x.d
             up == (2 * r > x.d) \/ (2 * r = x.d /\ q % 2 = 1)
         IN  Num(IF up THEN q + 1 ELSE q, scale)

\* abs(x)
FAbs(x) == IF IsNum(x) THEN Num(Abs(x.n), x.d) ELSE x

RECURSIVE FSum(_)
FSum(s) == IF s = <<>> THEN Zero ELSE FAdd(Head(s), FSum(Tail(s)))

-----------------------------------------------------------------------------
(* Python values reaching _safe_float: t is the Python type, k/n/d the     *)
(* number float(value) yields ("bad": float(value) raises ValueError).     *)

PyNone == [t |-> "none", k |-> "num", n |-> 0, d |-> 1]
PyFloat(x) == [t |-> "float", k |-> x.k, n |-> x.n, d |-> x.d]
PyInt(i) == [t |-> "int", k |-> "num", n |-> i, d |-> 1]
\* A non-float object: str, decimal.Decimal, numpy.float32, ...
PyOther(x) == [t |-> "other", k |-> x.k, n |-> x.n, d |-> x.d]

\* float(value)
ToFloat(v) ==
    IF v.t = "none" \/ v.k = "bad" THEN Raised
    ELSE [k |-> v.k, n |-> v.n, d |-> v.d]

\* DataPresentationService._safe_float
safe_float(value) ==
    IF value.t = "none" THEN Zero
    ELSE IF value.t = "float" /\ value.k = "nan" THEN Zero
    ELSE IF value.t = "float" /\ value.k \in {"inf", "ninf"} THEN Zero
    ELSE ToFloat(value)

\* DemandResponseService._safe_float
drs_safe_float(value) ==
    IF value.t = "none" THEN Zero
    ELSE LET v == ToFloat(value)
         IN  IF v.k = "raise" THEN Zero       \* except Exception: return 0.0
             ELSE IF v.k = "nan" THEN Zero
             ELSE IF v.k \in {"inf", "ninf"} THEN Zero
             ELSE v

\* _safe_float applied to the float result of engine arithmetic.
SafeF(x) == safe_float(PyFloat(x))

-----------------------------------------------------------------------------
(* The canonical dataset as DataPresentationService reads it.              *)
(*   demand record: [hour |-> Int, vals |-> [present regions -> value]]    *)
(*   solar row:     [hour |-> Int, AC_POWER |-> float]                     *)
(* Region values are what json.load yields for a demand column: null, NaN  *)
(* or a number, so float(value) never raises on them.                      *)

Regions == <<"Calabria", "Sardegna", "Sicilia", "North",
             "Central-northern Italy", "Centeral-southern Italy",
             "Southern-Italy">>

\* period_data.get(region, 0)
GetRegion(period_data, region) ==
    IF region \in DOMAIN period_data.vals THEN period_data.vals[region]
    ELSE PyInt(0)

\* One pass of "for region in [...]": the value added to regional_demand.
RegionTerm(period_data, region) ==
    LET value == GetRegion(period_data, region)
    IN  IF value.t # "none" /\ ~(value.t = "float" /\ value.k = "nan")
        THEN ToFloat(value)
        ELSE Zero

RECURSIVE SumRegions(_, _)
SumRegions(period_data, regs) ==
    IF regs = <<>> THEN Zero
    ELSE FAdd(RegionTerm(period_data, Head(regs)),
              SumRegions(period_data, Tail(regs)))

\* regional_demand of one record
regional_demand(period_data) == SumRegions(period_data, Regions)

RECURSIVE KeptDemands(_)
\* The regional_demand of the records that pass "if regional_demand > 0".
KeptDemands(rows) ==
    IF rows = <<>> THEN <<>>
    ELSE LET rd == regional_demand(Head(rows))
         IN  IF FGt(rd, Zero) THEN <<rd>> \o KeptDemands(Tail(rows))
             ELSE KeptDemands(Tail(rows))

RowsAtHour(rows, hour) == SelectSeq(rows, LAMBDA d : d.hour = hour)

\* Mutant: the average taken without the valid_periods guard, 0/0 for an
\* hour whose records are all dropped.
scaled_average_unguarded(hour_data, scaling) ==
    LET kept == KeptDemands(hour_data)
        valid_periods == Len(kept)
    IN  IF valid_periods > 0
        THEN LET avg_demand_mw == FDiv(FSum(kept), Int2F(valid_periods))
             IN  SafeF(FMul(FMul(avg_demand_mw, Int2F(1000)), scaling))
        ELSE NaN

\* total_demand_mw / valid_periods scaled to kW, or 0.0 when valid_periods = 0
ScaledAverage(hour_data, scaling) ==
    LET kept == KeptDemands(hour_data)
        valid_periods == Len(kept)
    IN  IF valid_periods > 0
        THEN LET avg_demand_mw == FDiv(FSum(kept), Int2F(valid_periods))
             IN  SafeF(FMul(FMul(avg_demand_mw, Int2F(1000)), scaling))
        ELSE Zero

\* DataPresentationService._get_hour_consumption
get_hour_consumption(hour, demand_data, config) ==
    LET hour_data == RowsAtHour(demand_data, hour)
    IN  IF hour_data = <<>> THEN Zero
        ELSE ScaledAverage(hour_data, config.regional_to_community_scaling)

RECURSIVE InsertSorted(_, _)
InsertSorted(h, s) ==
    IF s = <<>> THEN <<h>>
    ELSE IF h <= Head(s) THEN <<h>> \o s
    ELSE <<Head(s)>> \o InsertSorted(h, Tail(s))

RECURSIVE available_hours(_)
\* sorted([d.get('hour', 0) for d in demand_data if d.get('hour') is not None])
available_hours(demand_data) ==
    IF demand_data = <<>> THEN <<>>
    ELSE InsertSorted(Head(demand_data).hour, available_hours(Tail(demand_data)))

NoHour == -1

RECURSIVE ScanHours(_, _, _)
\* The "for h in available_hours" loop: <<before_hour, after_hour>>.
ScanHours(hours, target_hour, before_hour) ==
    IF hours = <<>> THEN <<before_hour, NoHour>>
    ELSE IF Head(hours) < target_hour
         THEN ScanHours(Tail(hours), target_hour, Head(hours))
    ELSE IF Head(hours) > target_hour THEN <<before_hour, Head(hours)>>
    ELSE ScanHours(Tail(hours), target_hour, before_hour)

\* Mutant: the interpolation weight measured from the later hour.
interpolate_weight_from_after(target_hour, demand_data, config) ==
    LET hours == available_hours(demand_data)
        ba == ScanHours(hours, target_hour, NoHour)
        before_hour == ba[1]
        after_hour == ba[2]
    IN  IF hours = <<>> THEN Zero
        ELSE IF before_hour = NoHour /\ after_hour # NoHour
             THEN get_hour_consumption(after_hour, demand_data, config)
        ELSE IF before_hour # NoHour /\ after_hour = NoHour
             THEN get_hour_consumption(before_hour, demand_data, config)
        ELSE IF before_hour = NoHour /\ after_hour = NoHour THEN Zero
        ELSE LET before_consumption ==
                     get_hour_consumption(before_hour, demand_data, config)
                 after_consumption ==
                     get_hour_consumption(after_hour, demand_data, config)
                 weight == FDiv(Int2F(after_hour - target_hour),
                                Int2F(after_hour - before_hour))
             IN  IF after_hour = before_hour THEN before_consumption
                 ELSE SafeF(FAdd(before_consumption,
                                 FMul(weight, FSub(after_consumption,
                                                   before_consumption))))

\* DataPresentationService._interpolate_consumption
interpolate_consumption(target_hour, demand_data, config) ==
    LET hours == available_hours(demand_data)
        ba == ScanHours(hours, target_hour, NoHour)
        before_hour == ba[1]
        after_hour == ba[2]
    IN  IF hours = <<>> THEN Zero
        ELSE IF before_hour = NoHour /\ after_hour # NoHour
             THEN get_hour_consumption(after_hour, demand_data, config)
        ELSE IF before_hour # NoHour /\ after_hour = NoHour
             THEN get_hour_consumption(before_hour, demand_data, config)
        ELSE IF before_hour = NoHour /\ after_hour = NoHour THEN Zero
        ELSE LET before_consumption ==
                     get_hour_consumption(before_hour, demand_data, config)
                 after_consumption ==
                     get_hour_consumption(after_hour, demand_data, config)
                 weight == FDiv(Int2F(target_hour - before_hour),
                                Int2F(after_hour - before_hour))
             IN  IF after_hour = before_hour THEN before_consumption
                 ELSE SafeF(FAdd(before_consumption,
                                 FMul(weight, FSub(after_consumption,
                                                   before_consumption))))

\* DataPresentationService.get_current_consumption, at datetime.now().hour
get_current_consumption(current_hour, snapshot, config) ==
    LET demand_data == snapshot.demand_data
        current_hour_data == RowsAtHour(demand_data, current_hour)
    IN  IF demand_data = <<>> THEN Zero
        ELSE IF current_hour_data = <<>>
             THEN interpolate_consumption(current_hour, demand_data, config)
        ELSE ScaledAverage(current_hour_data,
                           config.regional_to_community_scaling)

\* DataPresentationService._calculate_real_consumption
calculate_real_consumption(hour, demand_data, config) ==
    LET current_hour_data == RowsAtHour(demand_data, hour)
    IN  IF demand_data = <<>> THEN Zero
        ELSE IF current_hour_data = <<>>
             THEN interpolate_consumption(hour, demand_data, config)
        ELSE ScaledAverage(current_hour_data, config.fallback_regional_scaling)

-----------------------------------------------------------------------------
(* Generation                                                              *)

RECURSIVE PositivePowers(_)
\* [d.get('AC_POWER', 0) for d in rows if d.get('AC_POWER', 0) > 0]
PositivePowers(rows) ==
    IF rows = <<>> THEN <<>>
    ELSE IF FGt(Head(rows).AC_POWER, Zero)
         THEN <<Head(rows).AC_POWER>> \o PositivePowers(Tail(rows))
    ELSE PositivePowers(Tail(rows))

\* plant_N_avg: 0 without rows at the hour or without a positive power
PlantAvg(plant_data, hour) ==
    LET hour_data == RowsAtHour(plant_data, hour)
        powers == PositivePowers(hour_data)
    IN  IF hour_data # <<>> /\ powers # <<>>
        THEN FDiv(FSum(powers), Int2F(Len(powers)))
        ELSE Zero

\* DataPresentationService._calculate_real_generation
calculate_real_generation(hour, plant_1_data, plant_2_data) ==
    IF plant_1_data = <<>> \/ plant_2_data = <<>> THEN Zero
    ELSE SafeF(FAdd(PlantAvg(plant_1_data, hour), PlantAvg(plant_2_data, hour)))

\* DataPresentationService.get_current_generation, at datetime.now().hour
get_current_generation(current_hour, snapshot) ==
    LET plant_1_data == snapshot.plant_1
        plant_2_data == snapshot.plant_2
    IN  IF plant_1_data = <<>> \/ plant_2_data = <<>> THEN Zero
        ELSE SafeF(FAdd(PlantAvg(plant_1_data, current_hour),
                        PlantAvg(plant_2_data, current_hour)))

-----------------------------------------------------------------------------
(* Derived metrics                                                         *)

\* Mutant: the total taken as the consumption alone.
breakdown_total_is_consumption(generation, consumption) ==
    LET total_power == consumption
    IN  IF FLe(total_power, Zero) THEN [solar |-> Zero, grid |-> Zero]
        ELSE [solar |-> SafeF(FMul(FDiv(generation, total_power), Int2F(100))),
              grid |-> IF FGt(consumption, generation)
                       THEN SafeF(FMul(FMax(Zero,
                                FDiv(FSub(consumption, generation), total_power)),
                                Int2F(100)))
                       ELSE Zero]

\* DataPresentationService.get_energy_source_breakdown
get_energy_source_breakdown(generation, consumption) ==
    LET total_power == FMax(generation, consumption)
    IN  IF FLe(total_power, Zero) THEN [solar |-> Zero, grid |-> Zero]
        ELSE [solar |-> SafeF(FMul(FDiv(generation, total_power), Int2F(100))),
              grid |-> IF FGt(consumption, generation)
                       THEN SafeF(FMul(FMax(Zero,
                                FDiv(FSub(consumption, generation), total_power)),
                                Int2F(100)))
                       ELSE Zero]

\* DataPresentationService.get_net_balance
get_net_balance(generation, consumption) ==
    SafeF(FSub(generation, consumption))

\* Mutant: the export taken as the signed surplus.
grid_export_signed(generation, consumption) ==
    SafeF(FSub(generation, consumption))

\* DataPresentationService.get_grid_export
get_grid_export(generation, consumption) ==
    SafeF(FMax(Zero, FSub(generation, consumption)))

\* entry.get(key): None for an absent key
EntryGet(entry, key) == IF key \in DOMAIN entry THEN entry[key] ELSE PyNone

\* bool(value) of a price field: None and 0.0 are false, NaN is true
Truthy(value) == value.t # "none" /\ ~(value.k = "num" /\ value.n = 0)

\* price = entry.get('price_eur_kwh') or entry.get('price_eur_mwh')
EntryPrice(entry) ==
    IF Truthy(EntryGet(entry, "price_eur_kwh")) THEN EntryGet(entry, "price_eur_kwh")
    ELSE EntryGet(entry, "price_eur_mwh")

\* 'price_eur_mwh' in entry and entry.get('price_eur_kwh') is None
OnlyMwh(entry) ==
    "price_eur_mwh" \in DOMAIN entry /\ EntryGet(entry, "price_eur_kwh").t = "none"

RECURSIVE LatestFrom(_, _)
\* "for entry in reversed(pun_prices)" from position i downward
LatestFrom(pun_prices, i) ==
    IF i = 0 THEN Zero
    ELSE LET entry == pun_prices[i]
             price == EntryPrice(entry)
         IN  IF price.t = "none" THEN LatestFrom(pun_prices, i - 1)
             ELSE IF OnlyMwh(entry)
                  THEN IF ToFloat(entry["price_eur_mwh"]) = Raised
                       THEN LatestFrom(pun_prices, i - 1)
                       ELSE SafeF(FDiv(ToFloat(entry["price_eur_mwh"]), Int2F(1000)))
             ELSE IF ToFloat(price) = Raised THEN LatestFrom(pun_prices, i - 1)
             ELSE SafeF(ToFloat(price))

\* DataPresentationService._get_latest_pun_price_kwh
get_latest_pun_price_kwh(pun_prices) == LatestFrom(pun_prices, Len(pun_prices))

RECURSIVE DrsLatestFrom(_, _)
\* The same walk in DemandResponseService, with its own _safe_float
DrsLatestFrom(pun_prices, i) ==
    IF i = 0 THEN Zero
    ELSE LET entry == pun_prices[i]
             price == EntryPrice(entry)
         IN  IF price.t = "none" THEN DrsLatestFrom(pun_prices, i - 1)
             ELSE IF OnlyMwh(entry)
                  THEN IF ToFloat(entry["price_eur_mwh"]) = Raised
                       THEN DrsLatestFrom(pun_prices, i - 1)
                       ELSE drs_safe_float(PyFloat(
                                FDiv(ToFloat(entry["price_eur_mwh"]), Int2F(1000))))
             ELSE IF ToFloat(price) = Raised THEN DrsLatestFrom(pun_prices, i - 1)
             ELSE drs_safe_float(PyFloat(ToFloat(price)))

\* DemandResponseService._get_latest_pun_price_kwh
drs_get_latest_pun_price_kwh(pun_prices) ==
    DrsLatestFrom(pun_prices, Len(pun_prices))

\* Mutant: the ratio returned without the cap at 1.0.
efficiency_unclamped(generation, consumption) ==
    IF FLe(consumption, Zero) THEN Zero
    ELSE SafeF(FDiv(generation, consumption))

\* DataPresentationService._calculate_efficiency
calculate_efficiency(generation, consumption) ==
    IF FLe(consumption, Zero) THEN Zero
    ELSE SafeF(FMin(Int2F(1), FDiv(generation, consumption)))

\* One trends_data.append({...}) of the hourly loops; data_time in absolute
\* hours, data_time.hour its hour of day.
HoursPerDay == 24

HourOf(t) == t % HoursPerDay

Slot(data_time, snapshot, config) ==
    LET Entry(generation, consumption) ==
            LET net == FSub(generation, consumption)
                sold == FMax(Zero, net)
                bought == FMax(Zero, FNeg(net))
            IN  [date |-> data_time,
                 produced |-> Round2(generation),
                 consumed |-> Round2(consumption),
                 sold |-> Round2(sold),
                 bought |-> Round2(bought),
                 carbon_offset |-> 0,
                 efficiency |-> calculate_efficiency(generation, consumption)]
    IN  Entry(calculate_real_generation(HourOf(data_time), snapshot.plant_1,
                                        snapshot.plant_2),
              calculate_real_consumption(HourOf(data_time), snapshot.demand_data,
                                         config))

\* DataPresentationService.get_24h_energy_flow, with current_time = now
get_24h_energy_flow(now, snapshot, config) ==
    [i \in 1..24 |-> Slot(now - (24 - (i - 1)), snapshot, config)]

\* Mutant: the window counted back from total_hours - 1, so that it ends at
\* now.
energy_trends_up_to_now(days, now, snapshot, config) ==
    LET total_hours == days * 24
    IN  [i \in 1..total_hours |->
            Slot(now - (total_hours - i), snapshot, config)]

\* DataPresentationService.get_energy_trends
get_energy_trends(days, now, snapshot, config) ==
    IF days <= 1 THEN get_24h_energy_flow(now, snapshot, config)
    ELSE LET total_hours == days * 24
         IN  [i \in 1..total_hours |->
                 Slot(now - (total_hours - (i - 1)), snapshot, config)]

RECURSIVE SumRange(_, _, _)
\* s[lo] + ... + s[hi], summed by halves
SumRange(s, lo, hi) ==
    IF lo > hi THEN Zero
    ELSE IF lo = hi THEN s[lo]
    ELSE LET mid == (lo + hi) \div 2
         IN  FAdd(SumRange(s, lo, mid), SumRange(s, mid + 1, hi))

\* sum(values) of a long series; the arithmetic is exact, so the grouping
\* of the additions does not change the total
SumOf(s) == SumRange(s, 1, Len(s))

\* [p.get(key, 0) for p in flow] for the float fields of the slots
Produced(flow) == [i \in 1..Len(flow) |-> flow[i].produced]
Consumed(flow) == [i \in 1..Len(flow) |-> flow[i].consumed]

\* max(lo, min(hi, x))
Clamp(lo, hi, x) == FMax(lo, FMin(hi, x))

\* stability = max(0.0, min(1.0, 1.0 - abs(net) / max(consumption, 1.0)))
StabilityIndex(generation, consumption) ==
    Clamp(Zero, Int2F(1),
          FSub(Int2F(1), FDiv(FAbs(FSub(generation, consumption)),
                              FMax(consumption, Int2F(1)))))

\* DataPresentationService._get_grid_interaction_metrics
get_grid_interaction_metrics(generation_kw, consumption_kw, pun_prices) ==
    LET net_kw == FSub(generation_kw, consumption_kw)
        latest_price == get_latest_pun_price_kwh(pun_prices)
    IN  [stability_index |-> SafeF(StabilityIndex(generation_kw, consumption_kw)),
         import_rate |-> SafeF(IF FLt(net_kw, Zero) THEN latest_price ELSE Zero),
         export_rate |-> SafeF(IF FGt(net_kw, Zero)
                               THEN RoundTo(FMul(latest_price, Num(95, 100)), 100)
                               ELSE Zero)]

\* Mutant: the load taken without its cap at 100.
grid_telemetry_load_uncapped(now, snapshot, config) ==
    LET Telemetry(current_gen, current_cons, last24) ==
            LET stability == StabilityIndex(current_gen, current_cons)
                frequency_hz == FAdd(Int2F(50),
                                     FMul(Num(2, 10), FSub(Num(1, 2), stability)))
                voltage_v == FAdd(Int2F(230),
                                  FMul(Int2F(5), FSub(Num(1, 2), stability)))
                avg_consumed == IF last24 # <<>>
                                THEN FDiv(SumOf(Consumed(last24)),
                                          Int2F(Len(last24)))
                                ELSE FMax(current_cons, Int2F(1))
                load_pct == FMax(Zero,
                                 FMul(FDiv(current_cons,
                                           FMax(avg_consumed, Int2F(1))),
                                      Int2F(100)))
                source == get_energy_source_breakdown(current_gen, current_cons)
                renewable_pct == Clamp(Zero, Int2F(100), source.solar)
            IN  [frequency_hz |-> RoundTo(SafeF(frequency_hz), 100),
                 voltage_v |-> RoundTo(SafeF(voltage_v), 10),
                 load_pct |-> RoundTo(SafeF(load_pct), 1),
                 renewable_pct |-> RoundTo(SafeF(renewable_pct), 1)]
    IN  Telemetry(get_current_generation(HourOf(now), snapshot),
                  get_current_consumption(HourOf(now), snapshot, config),
                  get_24h_energy_flow(now, snapshot, config))

\* DataPresentationService.get_grid_telemetry; the config document has no
\* telemetry_baseline_hz / telemetry_nominal_v, so getattr yields 50.0 and
\* 230.0.
get_grid_telemetry(now, snapshot, config) ==
    LET Telemetry(current_gen, current_cons, last24) ==
            LET stability == StabilityIndex(current_gen, current_cons)
                frequency_hz == FAdd(Int2F(50),
                                     FMul(Num(2, 10), FSub(Num(1, 2), stability)))
                voltage_v == FAdd(Int2F(230),
                                  FMul(Int2F(5), FSub(Num(1, 2), stability)))
                avg_consumed == IF last24 # <<>>
                                THEN FDiv(SumOf(Consumed(last24)),
                                          Int2F(Len(last24)))
                                ELSE FMax(current_cons, Int2F(1))
                load_pct == Clamp(Zero, Int2F(100),
                                  FMul(FDiv(current_cons,
                                            FMax(avg_consumed, Int2F(1))),
                                       Int2F(100)))
                source == get_energy_source_breakdown(current_gen, current_cons)
                renewable_pct == Clamp(Zero, Int2F(100), source.solar)
            IN  [frequency_hz |-> RoundTo(SafeF(frequency_hz), 100),
                 voltage_v |-> RoundTo(SafeF(voltage_v), 10),
                 load_pct |-> RoundTo(SafeF(load_pct), 1),
                 renewable_pct |-> RoundTo(SafeF(renewable_pct), 1)]
    IN  Telemetry(get_current_generation(HourOf(now), snapshot),
                  get_current_consumption(HourOf(now), snapshot, config),
                  get_24h_energy_flow(now, snapshot, config))

\* Mutant: the offsets reported without rounding.
carbon_metrics_unrounded(now, snapshot, config) ==
    LET Metrics(emission_factor, flow, trends_30d) ==
            LET total_produced_kwh == SumOf(Produced(flow))
                total_consumed_kwh == SumOf(Consumed(flow))
            IN  [total_offset_kg |-> SafeF(FMul(total_produced_kwh, emission_factor)),
                 baseline_comparison |->
                     SafeF(IF FGt(total_consumed_kwh, Zero)
                           THEN Clamp(Zero, Int2F(1),
                                      FDiv(total_produced_kwh, total_consumed_kwh))
                           ELSE Zero),
                 regional_rank |-> 3,
                 cumulative_offset_kg |->
                     SafeF(FMul(SumOf(Produced(trends_30d)), emission_factor))]
    IN  Metrics(Num(35, 100), get_24h_energy_flow(now, snapshot, config),
                get_energy_trends(30, now, snapshot, config))

\* DataPresentationService.get_carbon_metrics; the config document has no
\* emission_factor_kg_per_kwh / regional_rank, so getattr yields 0.35 and 3.
get_carbon_metrics(now, snapshot, config) ==
    LET Metrics(emission_factor, flow, trends_30d) ==
            LET total_produced_kwh == SumOf(Produced(flow))
                total_consumed_kwh == SumOf(Consumed(flow))
                total_offset_kg == SafeF(FMul(total_produced_kwh, emission_factor))
                renewable_share ==
                    IF FGt(total_consumed_kwh, Zero)
                    THEN Clamp(Zero, Int2F(1),
                               FDiv(total_produced_kwh, total_consumed_kwh))
                    ELSE Zero
                produced_30d_kwh == SumOf(Produced(trends_30d))
                cumulative_offset_kg ==
                    SafeF(FMul(produced_30d_kwh, emission_factor))
            IN  [total_offset_kg |-> RoundTo(total_offset_kg, 100),
                 baseline_comparison |-> SafeF(renewable_share),
                 regional_rank |-> 3,
                 cumulative_offset_kg |-> RoundTo(cumulative_offset_kg, 100)]
    IN  Metrics(Num(35, 100), get_24h_energy_flow(now, snapshot, config),
                get_energy_trends(30, now, snapshot, config))

\* The event appended when "price_signal and price_signal > 0.2"
PeakPriceEvents(price_signal, potential_shed_kw) ==
    IF price_signal # Zero /\ FGt(price_signal, Num(2, 10))
    THEN <<[id |-> "peak-price",
            target_reduction_kw |-> RoundTo(potential_shed_kw, 100),
            reward_per_kwh |-> RoundTo(FMul(price_signal, Num(1, 2)), 1000)]>>
    ELSE <<>>

\* recommendations, in the order they are appended
Recommendations(price_signal, net) ==
    (IF price_signal # Zero /\ FGt(price_signal, Num(2, 10))
     THEN <<"Reduce flexible loads during next 2 hours to avoid high prices">>
     ELSE <<>>)
    \o (IF FLt(net, Zero)
        THEN <<"Shift non-critical consumption to off-peak hours">>
        ELSE <<>>)

\* DataPresentationService.get_demand_response_metrics; the config
\* document has no demand_response_engagement, so getattr yields 0.75.
get_demand_response_metrics(now, snapshot, config) ==
    LET current_gen == get_current_generation(HourOf(now), snapshot)
        current_cons == get_current_consumption(HourOf(now), snapshot, config)
        net == FSub(current_gen, current_cons)
        price_signal == get_latest_pun_price_kwh(snapshot.pun_prices)
        potential_shed_kw == FMax(Zero, FMul(current_cons, Num(1, 10)))
    IN  [engagement |-> SafeF(Num(3, 4)),
         potential_shed_kw |-> SafeF(potential_shed_kw),
         price_signal_eur_kwh |-> SafeF(price_signal),
         active_events |-> PeakPriceEvents(price_signal, potential_shed_kw),
         recommendations |-> Recommendations(price_signal, net)]

\* Mutant: the deficit advice is left out of the recommendations.
drs_metrics_without_deficit_advice(now, snapshot, config) ==
    LET current_gen == get_current_generation(HourOf(now), snapshot)
        current_cons == get_current_consumption(HourOf(now), snapshot, config)
        net == FSub(current_gen, current_cons)
        price_signal == drs_get_latest_pun_price_kwh(snapshot.pun_prices)
        potential_shed_kw == FMax(Zero, FMul(current_cons, Num(1, 10)))
    IN  [engagement |-> drs_safe_float(PyFloat(Num(3, 4))),
         potential_shed_kw |-> drs_safe_float(PyFloat(potential_shed_kw)),
         price_signal_eur_kwh |-> drs_safe_float(PyFloat(price_signal)),
         active_events |-> PeakPriceEvents(price_signal, potential_shed_kw),
         recommendations |-> Recommendations(price_signal, Zero),
         aggregate_generation_kw |-> drs_safe_float(PyFloat(current_gen)),
         aggregate_consumption_kw |-> drs_safe_float(PyFloat(current_cons)),
         net_balance_kw |-> drs_safe_float(PyFloat(net)),
         aggregate_potential_shed_kw |-> drs_safe_float(PyFloat(potential_shed_kw))]

\* DemandResponseService.get_demand_response_metrics
drs_get_demand_response_metrics(now, snapshot, config) ==
    LET current_gen == get_current_generation(HourOf(now), snapshot)
        current_cons == get_current_consumption(HourOf(now), snapshot, config)
        net == FSub(current_gen, current_cons)
        price_signal == drs_get_latest_pun_price_kwh(snapshot.pun_prices)
        potential_shed_kw == FMax(Zero, FMul(current_cons, Num(1, 10)))
    IN  [engagement |-> drs_safe_float(PyFloat(Num(3, 4))),
         potential_shed_kw |-> drs_safe_float(PyFloat(potential_shed_kw)),
         price_signal_eur_kwh |-> drs_safe_float(PyFloat(price_signal)),
         active_events |-> PeakPriceEvents(price_signal, potential_shed_kw),
         recommendations |-> Recommendations(price_signal, net),
         aggregate_generation_kw |-> drs_safe_float(PyFloat(current_gen)),
         aggregate_consumption_kw |-> drs_safe_float(PyFloat(current_cons)),
         net_balance_kw |-> drs_safe_float(PyFloat(net)),
         aggregate_potential_shed_kw |-> drs_safe_float(PyFloat(potential_shed_kw))]

\* dict.get(key, default)
DictGet(d, key, default) == IF key \in DOMAIN d THEN d[key] ELSE default

RECURSIVE DemandValues(_)
\* demand_values of _calculate_total_demand_24h: float(value) of every
\* 'Total Italy' that is neither None nor a float NaN
DemandValues(demand_data) ==
    IF demand_data = <<>> THEN <<>>
    ELSE LET value == DictGet(Head(demand_data).vals, "Total Italy", PyInt(0))
         IN  IF value.t # "none" /\ ~(value.t = "float" /\ value.k = "nan")
             THEN <<ToFloat(value)>> \o DemandValues(Tail(demand_data))
             ELSE DemandValues(Tail(demand_data))

\* DataPresentationService._calculate_total_demand_24h
calculate_total_demand_24h(demand_data, config) ==
    LET demand_values == DemandValues(demand_data)
    IN  IF demand_data = <<>> \/ demand_values = <<>> THEN Zero
        ELSE IF \E i \in 1..Len(demand_values) : demand_values[i] = Raised
        THEN Zero
        ELSE SafeF(FMul(FSum(demand_values), config.demand_scaling_factor))

\* DataPresentationService._calculate_total_production_24h
calculate_total_production_24h(analytics) ==
    LET plant_1_stats == DictGet(analytics, "plant_1_stats", <<>>)
        plant_2_stats == DictGet(analytics, "plant_2_stats", <<>>)
    IN  SafeF(FAdd(DictGet(plant_1_stats, "total_production_kwh", Zero),
                   DictGet(plant_2_stats, "total_production_kwh", Zero)))

\* sum([u.get(key, 0) for u in all_users])
UserSum(all_users, key) ==
    FSum([i \in 1..Len(all_users) |-> DictGet(all_users[i], key, Zero)])

\* UserDeviceService.aggregate_community_metrics; failed: get_all_users_data
\* raised
aggregate_community_metrics(all_users, failed) ==
    IF failed
    THEN [total_battery_capacity_kwh |-> Zero,
          average_battery_soc_pct |-> Zero,
          user_count |-> 0]
    ELSE IF all_users = <<>>
    THEN [total_battery_capacity_kwh |-> Zero, user_count |-> 0]
    ELSE LET total_battery_capacity == UserSum(all_users, "battery_capacity_kwh")
             total_battery_energy ==
                 FSum([i \in 1..Len(all_users) |->
                         FMul(DictGet(all_users[i], "battery_capacity_kwh", Zero),
                              FDiv(DictGet(all_users[i], "battery_soc_pct", Zero),
                                   Int2F(100)))])
             avg_soc == IF FGt(total_battery_capacity, Zero)
                        THEN FMul(FDiv(total_battery_energy, total_battery_capacity),
                                  Int2F(100))
                        ELSE Zero
         IN  [total_battery_capacity_kwh |-> Round2(total_battery_capacity),
              average_battery_soc_pct |-> RoundTo(avg_soc, 10),
              user_count |-> Len(all_users)]

\* Mutant: the notice service's exception left uncaught.
system_notices_uncaught(notices, failed) == IF failed THEN Raised ELSE notices

\* DataPresentationService._get_system_notices; failed: the notice service
\* raised
get_system_notices(notices, failed) == IF failed THEN <<>> ELSE notices

\* The except branches of the metrics the dashboard gathers
GridInteractionFallback ==
    [stability_index |-> Num(9, 10), import_rate |-> Zero, export_rate |-> Zero]

CarbonFallback ==
    [total_offset_kg |-> Zero, baseline_comparison |-> Zero,
     regional_rank |-> 0, cumulative_offset_kg |-> Zero]

\* The sub-fetches of one dashboard request
Fetches == {"generation", "consumption", "grid", "carbon", "devices", "notices"}

\* "return {}" of the outer except
EmptyResponse == <<>>

\* DataPresentationService.get_community_dashboard_data over the config
\* object the service holds; fails: the sub-fetches that raise inside
\* their own try; an exception that escaped one would end in the outer
\* except.  The sections made of display and mock parameters only
\* (contribution tiers, marketplace, leaderboards) are plain config reads
\* and are not part of the record.
get_community_dashboard_data(now, snapshot, config, all_users, notices, fails) ==
    LET Response(current_generation, current_consumption,
                 community_device_metrics, alerts_system_notices) ==
            LET net_balance ==
                    get_net_balance(current_generation, current_consumption)
                source_breakdown ==
                    get_energy_source_breakdown(current_generation,
                                                current_consumption)
                total_demand ==
                    calculate_total_demand_24h(snapshot.demand_data, config)
                total_production ==
                    calculate_total_production_24h(snapshot.analytics)
                grid_metrics ==
                    IF "grid" \in fails THEN GridInteractionFallback
                    ELSE get_grid_interaction_metrics(current_generation,
                                                      current_consumption,
                                                      snapshot.pun_prices)
                carbon_metrics ==
                    IF "carbon" \in fails THEN CarbonFallback
                    ELSE get_carbon_metrics(now, snapshot, config)
            IN  IF alerts_system_notices = Raised THEN EmptyResponse
                ELSE
                [total_energy_flow |->
                     [generation |-> [live |-> current_generation,
                                      history_24h |-> total_production],
                      consumption |-> [live |-> current_consumption,
                                       history_24h |-> total_demand],
                      net |-> net_balance,
                      source_breakdown |-> source_breakdown],
                 storage_network |->
                     [total_capacity |->
                          FMul(DictGet(community_device_metrics,
                                       "total_battery_capacity_kwh", Zero),
                               Int2F(1000)),
                      aggregate_soc |->
                          DictGet(community_device_metrics,
                                  "average_battery_soc_pct", Zero)],
                 grid_interaction |-> grid_metrics,
                 participation_summary |->
                     [active_members |-> community_device_metrics.user_count],
                 carbon_metrics |-> carbon_metrics,
                 alerts_system_notices |-> alerts_system_notices]
    IN  Response(IF "generation" \in fails THEN Zero
                 ELSE get_current_generation(HourOf(now), snapshot),
                 IF "consumption" \in fails THEN Zero
                 ELSE get_current_consumption(HourOf(now), snapshot, config),
                 aggregate_community_metrics(all_users, "devices" \in fails),
                 get_system_notices(notices, "notices" \in fails))

-----------------------------------------------------------------------------
(* CommunityConfigDocument.  The parameters that feed a derived total or   *)
(* a scaling are modelled; the remaining display and mock parameters are   *)
(* independent fields handled exactly like demand_scaling_factor.  Every   *)
(* numeric parameter, int or float, is held as a number n/d.               *)

\* int(x) for a finite float: truncation toward zero
IntOf(x) == IF x.n >= 0 THEN x.n \div x.d ELSE -((-x.n) \div x.d)

\* CommunityConfigDocument(): every field at its default, stamped utcnow()
CommunityConfigDocument(now) ==
    [created_at |-> now,
     updated_at |-> now,
     version |-> 1,
     total_households |-> Int2F(500),
     average_household_size |-> Num(5, 2),
     total_population |-> Int2F(1250),
     households_with_solar |-> Int2F(300),
     average_solar_capacity_per_household |-> Num(8, 1),
     total_solar_capacity |-> Num(2400, 1),
     solar_panel_area_per_household |-> Num(40, 1),
     total_solar_area |-> Num(12000, 1),
     average_household_consumption |-> Num(7, 2),
     peak_household_consumption |-> Num(7, 1),
     total_community_consumption |-> Num(1750, 1),
     regional_to_community_scaling |-> Num(1, 10000),
     demand_scaling_factor |-> Num(1, 4),
     battery_capacity_per_household |-> Num(10, 1),
     total_battery_capacity |-> Num(5000, 1),
     fallback_regional_scaling |-> Num(1, 1000)]

ProtectedKeys == {"id", "created_at", "version"}

\* CommunityConfigDocument.calculate_derived_values
calculate_derived_values(self) ==
    [self EXCEPT
        !.total_population =
            Int2F(IntOf(FMul(self.total_households, self.average_household_size))),
        !.total_solar_capacity =
            FMul(self.households_with_solar,
                 self.average_solar_capacity_per_household),
        !.total_solar_area =
            FMul(self.households_with_solar, self.solar_panel_area_per_household),
        !.total_community_consumption =
            FMul(self.total_households, self.average_household_consumption),
        !.total_battery_capacity =
            FMul(self.total_households, self.battery_capacity_per_household)]

RECURSIVE SetAttrs(_, _)
\* The "for key, value in kwargs.items()" loop on the object itself:
\* [doc, ok], where ok = FALSE when a key raised ValueError; the keys set
\* before the offending one stay set.
SetAttrs(self, kwargs) ==
    IF kwargs = <<>> THEN [doc |-> self, ok |-> TRUE]
    ELSE LET key == Head(kwargs).key
             value == Head(kwargs).value
         IN  IF key \in DOMAIN self /\ key \notin ProtectedKeys
             THEN SetAttrs([self EXCEPT ![key] = value], Tail(kwargs))
             ELSE IF key \notin ProtectedKeys
             THEN [doc |-> self, ok |-> FALSE]
             ELSE SetAttrs(self, Tail(kwargs))

\* CommunityConfigDocument.update_and_calculate, called at time now
update_and_calculate(self, kwargs, now) ==
    LET set == SetAttrs(self, kwargs)
    IN  IF set.ok
        THEN [doc |-> [calculate_derived_values(set.doc) EXCEPT !.updated_at = now],
              ok |-> TRUE]
        ELSE set

-----------------------------------------------------------------------------
(* CommunityConfigManager over m = [heap, cache, store].  A document       *)
(* object lives in the heap under its identity; the cache and the service  *)
(* hold references, so an in-place update is seen through every alias.     *)
(* The store holds at most one singleton document: <<>> or <<doc>>.        *)

ObjIds == {"o1", "o2", "o3"}
NoRef == "None"

\* A new object holding doc
NewObject(m, doc) ==
    LET ref == CHOOSE o \in ObjIds : o \notin DOMAIN m.heap
    IN  [m |-> [m EXCEPT !.heap = [o \in DOMAIN m.heap \cup {ref} |->
                                      IF o = ref THEN doc ELSE m.heap[o]]],
         ref |-> ref]

\* CommunityConfigManager._save_config with the database reachable: the
\* upsert $set of every field of the document
save_config(m, config) == [m EXCEPT !.store = <<config>>]

\* CommunityConfigManager._load_config: [m, ref].  dbOk = FALSE: a database
\* call raises and the except branch returns CommunityConfigDocument().
load_config(m, dbOk, now) ==
    IF dbOk /\ m.store # <<>> THEN NewObject(m, m.store[1])
    ELSE IF dbOk
         THEN LET default_config == CommunityConfigDocument(now)
              IN  NewObject(save_config(m, default_config), default_config)
    ELSE NewObject(m, CommunityConfigDocument(now))

\* CommunityConfigManager.get_config: the state after the call; the
\* returned object is .cache
get_config(m, dbOk, now) ==
    IF m.cache = NoRef
    THEN LET l == load_config(m, dbOk, now)
         IN  [l.m EXCEPT !.cache = l.ref]
    ELSE m

\* CommunityConfigManager.update_config: [m, ok, pre], pre the state
\* after its get_config() and before update_and_calculate
update_config(m, kwargs, loadOk, saveOk, now) ==
    LET m1 == get_config(m, loadOk, now)
        config == m1.cache
        upd == update_and_calculate(m1.heap[config], kwargs, now)
        m2 == [m1 EXCEPT !.heap[config] = upd.doc]
    IN  IF ~upd.ok THEN [m |-> m2, ok |-> FALSE, pre |-> m1]
        ELSE IF ~saveOk THEN [m |-> m2, ok |-> FALSE, pre |-> m1]
        ELSE [m |-> save_config(m2, m2.heap[config]), ok |-> TRUE, pre |-> m1]

\* Mutant: the defaults are saved, the cache keeps the document it held.
reset_config_keeps_cache(m, saveOk, now) ==
    IF ~saveOk THEN [m |-> m, ok |-> FALSE, pre |-> m]
    ELSE [m |-> save_config(m, CommunityConfigDocument(now)), ok |-> TRUE, pre |-> m]

\* CommunityConfigManager.reset_config: [m, ok, pre]
reset_config(m, saveOk, now) ==
    LET default_config == CommunityConfigDocument(now)
        n == NewObject(m, default_config)
    IN  IF ~saveOk THEN [m |-> m, ok |-> FALSE, pre |-> m]
        ELSE [m |-> [save_config(n.m, default_config) EXCEPT !.cache = n.ref],
              ok |-> TRUE, pre |-> m]

\* DataPresentationService._get_config: [m, ref], ref the service's _config
svc_get_config(m, ref, dbOk, now) ==
    IF ref = NoRef
    THEN LET m1 == get_config(m, dbOk, now) IN [m |-> m1, ref |-> m1.cache]
    ELSE [m |-> m, ref |-> ref]

\* Objects no reference reaches are dropped.
Collect(m, ref) ==
    [m EXCEPT !.heap = [o \in (DOMAIN m.heap) \cap {m.cache, ref} |-> m.heap[o]]]

\* What the next get_config() of the manager returns, as <<doc>> (<<>>: it
\* would have to load).
CachedDoc(m) == IF m.cache = NoRef THEN <<>> ELSE <<m.heap[m.cache]>>

\* CommunityConfigManager.validate_configuration on the config that
\* get_config() returned: the issues and the verdict
validate_configuration(config) ==
    LET issues ==
            (IF FGt(config.households_with_solar, config.total_households)
             THEN {"Solar households exceed total households"} ELSE {})
            \cup
            (IF FLt(config.peak_household_consumption,
                    config.average_household_consumption)
             THEN {"Peak consumption is less than average consumption"} ELSE {})
    IN  [valid |-> issues = {}, issues |-> issues]

-----------------------------------------------------------------------------
(* PUT /config: the CommunityConfigUpdate schema and the endpoint          *)

\* Field(None, ge=lo, le=hi) of CommunityConfigUpdate; hi = <<>>: no le
UpdateFieldRange ==
    [total_households |-> [lo |-> Int2F(1), hi |-> <<Int2F(10000)>>],
     average_household_size |-> [lo |-> Int2F(1), hi |-> <<Int2F(10)>>],
     households_with_solar |-> [lo |-> Zero, hi |-> <<>>],
     average_solar_capacity_per_household |-> [lo |-> Zero, hi |-> <<Int2F(50)>>],
     solar_panel_area_per_household |-> [lo |-> Zero, hi |-> <<Int2F(200)>>],
     average_household_consumption |-> [lo |-> Zero, hi |-> <<Int2F(20)>>],
     peak_household_consumption |-> [lo |-> Zero, hi |-> <<Int2F(50)>>],
     regional_to_community_scaling |->
         [lo |-> Num(1, 100000), hi |-> <<Num(1, 100)>>],
     demand_scaling_factor |-> [lo |-> Num(1, 100), hi |-> <<Int2F(1)>>],
     battery_capacity_per_household |-> [lo |-> Zero, hi |-> <<Int2F(100)>>],
     fallback_regional_scaling |-> [lo |-> Num(1, 10000), hi |-> <<Num(1, 100)>>]]

FieldInRange(item) ==
    LET r == UpdateFieldRange[item.key]
    IN  /\ FLe(r.lo, item.value)
        /\ r.hi # <<>> => FLe(item.value, r.hi[1])

\* The value the body gives for key, as <<value>> (<<>>: not given)
BodyValue(body, key) ==
    LET hit == SelectSeq(body, LAMBDA it : it.key = key)
    IN  IF hit = <<>> THEN <<>> ELSE <<hit[1].value>>

\* CommunityConfigUpdate.validate_solar_households
validate_solar_households(body) ==
    LET v == BodyValue(body, "households_with_solar")
        total == BodyValue(body, "total_households")
    IN  (v # <<>> /\ total # <<>>) => ~FGt(v[1], total[1])

\* CommunityConfigUpdate.validate_peak_consumption
validate_peak_consumption(body) ==
    LET v == BodyValue(body, "peak_household_consumption")
        avg == BodyValue(body, "average_household_consumption")
    IN  (v # <<>> /\ avg # <<>>) => ~FLt(v[1], avg[1])

\* The fields of the body the schema declares; the others are ignored.
KnownFields(body) == SelectSeq(body, LAMBDA it : it.key \in DOMAIN UpdateFieldRange)

\* CommunityConfigUpdate accepts the request body
SchemaAccepts(body) ==
    /\ \A i \in 1..Len(KnownFields(body)) : FieldInRange(KnownFields(body)[i])
    /\ validate_solar_households(KnownFields(body))
    /\ validate_peak_consumption(KnownFields(body))

\* update_community_config: [m, ok, pre].  A body the schema refuses never
\* reaches the handler; an empty update_data raises before update_config.
update_community_config(m, body, loadOk, saveOk, now) ==
    LET update_data == KnownFields(body)
    IN  IF ~SchemaAccepts(body) \/ update_data = <<>>
        THEN [m |-> m, ok |-> FALSE, pre |-> m]
        ELSE update_config(m, update_data, loadOk, saveOk, now)

-----------------------------------------------------------------------------
(* Specification Spec: the configuration manager and the long-lived        *)
(* DataPresentationService of the analytics router, over a fixed snapshot. *)

MaxWrites == 2

Kw(key, value) == [key |-> key, value |-> value]

\* Arguments of update_config(**kwargs) and bodies of PUT /config; among
\* them the call of the test script (households, household size, solar
\* households), a valid key followed by an unknown one, and a solar
\* household count given alone.
KwargsChoices ==
    {<<Kw("regional_to_community_scaling", Num(5, 1000))>>,
     <<Kw("total_households", Int2F(1000))>>,
     <<Kw("unknown_parameter", Int2F(1))>>,
     <<Kw("regional_to_community_scaling", Num(5, 1000)),
       Kw("unknown_parameter", Int2F(1))>>,
     <<Kw("regional_to_community_scaling", Num(1, 2))>>,
     <<Kw("total_households", Int2F(1000)),
       Kw("average_household_size", Int2F(3)),
       Kw("households_with_solar", Int2F(800))>>,
     <<Kw("total_households", Int2F(1000)), Kw("unknown_parameter", Int2F(1))>>,
     <<Kw("households_with_solar", Int2F(800))>>}

\* One demand record at hour 6 carrying 1000 MW, and no solar rows
FixedSnapshot ==
    [demand_data |-> <<[hour |-> 6,
                        vals |-> [r \in {"Calabria"} |-> PyFloat(Int2F(1000))]]>>,
     plant_1 |-> <<>>,
     plant_2 |-> <<>>]

QueryHours == {6, 8}

Mgr == [heap |-> heap, cache |-> mgrCache, store |-> store]

SetMgr(m) ==
    LET c == Collect(m, svcConfig')
    IN  /\ heap' = c.heap
        /\ mgrCache' = c.cache
        /\ store' = c.store

\* The record of a call to the manager or to the service
Res(op, ok, arg, pre, hour, value, used) ==
    [op |-> op, ok |-> ok, arg |-> arg,
     pre_config |-> CachedDoc(pre), pre_store |-> pre.store,
     hour |-> hour, value |-> value, used |-> used]

\* No call in progress: the last response has been handed to its caller.
Idle ==
    Res("idle", TRUE, <<>>, [heap |-> <<>>, cache |-> NoRef, store |-> <<>>],
        0, Zero, <<>>)

InitFrame ==
    /\ raw = <<>>
    /\ canon = <<>>
    /\ artifact = <<>>

Init ==
    /\ data = FixedSnapshot
    /\ heap = <<>>
    /\ mgrCache = NoRef
    /\ svcConfig = NoRef
    /\ store \in {<<>>, <<CommunityConfigDocument(0)>>,
                  <<[CommunityConfigDocument(0) EXCEPT
                        !.demand_scaling_factor = Num(1, 2)]>>}
    /\ clock = 0
    /\ InitFrame
    /\ result = Idle

\* GET /config -> community_config.get_config()
GetConfig ==
    \E dbOk \in BOOLEAN :
        /\ result = Idle
        /\ svcConfig' = svcConfig
        /\ SetMgr(get_config(Mgr, dbOk, clock))
        /\ result' = Res("get_config", TRUE, <<>>, Mgr, 0, Zero, <<>>)
        /\ UNCHANGED <<data, clock, raw, canon, artifact>>

\* community_config.update_config(**kwargs), as the test script calls it
UpdateConfig ==
    \E kwargs \in KwargsChoices, loadOk \in BOOLEAN, saveOk \in BOOLEAN :
        /\ result = Idle
        /\ clock < MaxWrites
        /\ clock' = clock + 1
        /\ LET u == update_config(Mgr, kwargs, loadOk, saveOk, clock')
           IN  /\ svcConfig' = svcConfig
               /\ SetMgr(u.m)
               /\ result' = Res("update_config", u.ok, kwargs, u.pre, 0, Zero, <<>>)
        /\ UNCHANGED <<data, raw, canon, artifact>>

\* PUT /config
PutConfig ==
    \E body \in KwargsChoices, loadOk \in BOOLEAN, saveOk \in BOOLEAN :
        /\ result = Idle
        /\ clock < MaxWrites
        /\ clock' = clock + 1
        /\ LET u == update_community_config(Mgr, body, loadOk, saveOk, clock')
           IN  /\ svcConfig' = svcConfig
               /\ SetMgr(u.m)
               /\ result' = Res("put_config", u.ok, body, u.pre, 0, Zero, <<>>)
        /\ UNCHANGED <<data, raw, canon, artifact>>

\* POST /config/reset -> community_config.reset_config()
ResetConfig ==
    \E saveOk \in BOOLEAN :
        /\ result = Idle
        /\ clock < MaxWrites
        /\ clock' = clock + 1
        /\ LET u == reset_config(Mgr, saveOk, clock')
           IN  /\ svcConfig' = svcConfig
               /\ SetMgr(u.m)
               /\ result' = Res("reset_config", u.ok, <<>>, u.pre, 0, Zero, <<>>)
        /\ UNCHANGED <<data, raw, canon, artifact>>

\* The consumption computation reaches "config = await self._get_config()":
\* some hour it averages has a kept record.
ReadsConfig(hour, demand_data) ==
    LET at == RowsAtHour(demand_data, hour)
        ba == ScanHours(available_hours(demand_data), hour, NoHour)
    IN  IF at # <<>> THEN KeptDemands(at) # <<>>
        ELSE \E h \in {ba[1], ba[2]} \ {NoHour} :
                 KeptDemands(RowsAtHour(demand_data, h)) # <<>>

\* A metric request: data_presentation.get_current_consumption() at an hour
GetCurrentConsumption ==
    \E current_hour \in QueryHours, dbOk \in BOOLEAN :
        LET reads == ReadsConfig(current_hour, data.demand_data)
            g == IF reads THEN svc_get_config(Mgr, svcConfig, dbOk, clock)
                 ELSE [m |-> Mgr, ref |-> svcConfig]
            config == IF reads THEN g.m.heap[g.ref] ELSE CommunityConfigDocument(0)
        IN  /\ result = Idle
            /\ svcConfig' = g.ref
            /\ SetMgr(g.m)
            /\ result' = Res("get_current_consumption", TRUE, <<>>, Mgr, current_hour,
                             get_current_consumption(current_hour, data, config),
                             IF reads THEN <<config>> ELSE <<>>)
            /\ UNCHANGED <<data, clock, raw, canon, artifact>>

\* The response (or the error) reaches the caller.
Respond ==
    /\ result # Idle
    /\ result' = Idle
    /\ UNCHANGED <<data, heap, mgrCache, svcConfig, store, clock, raw, canon, artifact>>

Next ==
    \/ GetConfig
    \/ UpdateConfig
    \/ PutConfig
    \/ ResetConfig
    \/ GetCurrentConsumption
    \/ Respond

Spec == Init /\ [][Next]_vars

-----------------------------------------------------------------------------
(* Claims checked under Spec                                               *)

C4_WriteOps == {"update_config", "put_config", "reset_config"}

\* C3: after a completed config write, a metric request served by the
\* already-constructed service computes with the config values the manager
\* now holds: the scaling the request read is the manager's current one.
C3_MetricUsesCurrentConfig ==
    (result.op = "get_current_consumption" /\ result.used # <<>>)
        => result.used[1].regional_to_community_scaling =
               heap[mgrCache].regional_to_community_scaling

\* C4: a rejected configuration write leaves the config returned by the
\* next get_config() and the persisted config as they were before it.
C4_RejectedWriteLeavesConfig ==
    (result.op \in C4_WriteOps /\ ~result.ok)
        => /\ CachedDoc(Mgr) = result.pre_config
           /\ store = result.pre_store

\* The region values of a record that are neither null nor NaN
C6_PresentValues(rec) ==
    {r \in DOMAIN rec.vals : rec.vals[r].t # "none" /\ rec.vals[r].k # "nan"}

RECURSIVE C6_SumOver(_, _)
C6_SumOver(rec, rs) ==
    IF rs = {} THEN Zero
    ELSE LET r == CHOOSE x \in rs : TRUE
         IN  FAdd(ToFloat(rec.vals[r]), C6_SumOver(rec, rs \ {r}))

C6_Demand(rec) == C6_SumOver(rec, C6_PresentValues(rec))

\* Indices of the records at the hour whose regional demand is positive
C6_Kept(rows, hour) ==
    {i \in 1..Len(rows) : rows[i].hour = hour /\ FGt(C6_Demand(rows[i]), Zero)}

RECURSIVE C6_Total(_, _)
C6_Total(rows, is) ==
    IF is = {} THEN Zero
    ELSE LET i == CHOOSE x \in is : TRUE
         IN  FAdd(C6_Demand(rows[i]), C6_Total(rows, is \ {i}))

\* mean(kept regional_demand) * 1000 * scaling, 0 without a kept record
C6_Expected(rows, hour, scaling) ==
    LET kept == C6_Kept(rows, hour)
    IN  IF kept = {} THEN Zero
        ELSE FMul(FMul(FDiv(C6_Total(rows, kept), Int2F(Cardinality(kept))),
                       Int2F(1000)), scaling)

\* C6: with demand records at the hour, current consumption is the mean of
\* the kept regional demands * 1000 * regional_to_community_scaling, the
\* scaling being the one the configuration holds when the call is made.
C6_ConsumptionUsesConfigAtCallTime ==
    (/\ result.op = "get_current_consumption"
     /\ RowsAtHour(data.demand_data, result.hour) # <<>>
     /\ mgrCache # NoRef)
        => result.value =
               C6_Expected(data.demand_data, result.hour,
                           heap[mgrCache].regional_to_community_scaling)

\* The derived totals of a document equal their formulas over its current
\* parameters.
C21_DerivedHold(doc) == calculate_derived_values(doc) = doc

C21_DerivedKeys ==
    {"total_population", "total_solar_capacity", "total_solar_area",
     "total_community_consumption", "total_battery_capacity"}

\* Every parameter the call names, the derived totals and the stamps set
\* aside, has the value the call gave it.
C21_NamedHold(kwargs, doc) ==
    \A i \in 1..Len(kwargs) :
        (/\ kwargs[i].key \in DOMAIN doc
         /\ kwargs[i].key \notin ProtectedKeys \cup C21_DerivedKeys \cup {"updated_at"})
            => doc[kwargs[i].key] = kwargs[i].value

\* The part of C21 about a successful update: the config get_config()
\* returns next holds every named value and recomputed derived totals.
C21_AfterSuccessfulUpdate ==
    (result.op \in {"update_config", "put_config"} /\ result.ok)
        => /\ C21_NamedHold(result.arg, CachedDoc(Mgr)[1])
           /\ C21_DerivedHold(CachedDoc(Mgr)[1])

\* C21: after a successful update_config the config get_config() returns
\* holds every named parameter at its new value and derived totals
\* recomputed from the current parameters, and the derived equalities hold
\* of the config in every state reached from the defaults by update_config
\* and reset_config calls.
C21_UpdateRecomputesDerivedTotals ==
    /\ C21_AfterSuccessfulUpdate
    /\ mgrCache # NoRef => C21_DerivedHold(heap[mgrCache])

\* C22: after a successful reset_config, whatever updates came before, the
\* config get_config() returns holds the default value of every parameter
\* and the persisted singleton holds the same defaults.
C22_ResetRestoresDefaults ==
    (result.op = "reset_config" /\ result.ok)
        => /\ CachedDoc(Mgr) = <<CommunityConfigDocument(clock)>>
           /\ store = <<CommunityConfigDocument(clock)>>

\* A reset that succeeded on a config an earlier update had changed
C22_Witness ==
    /\ result.op = "reset_config"
    /\ result.ok
    /\ result.pre_config # <<>>
    /\ result.pre_config[1].total_households = Int2F(1000)
    /\ result.pre_store # <<>>
    /\ result.pre_store[1].total_households = Int2F(1000)
    /\ heap[mgrCache].total_households = Int2F(500)

\* The parameters of the persisted config a call naming kwargs may change
C27_MayChange(kwargs) ==
    {kwargs[i].key : i \in 1..Len(kwargs)} \cup C21_DerivedKeys \cup {"updated_at"}

\* C27: update_config changes in the persisted config only the parameters
\* it names, the derived totals and updated_at; every other parameter that
\* was persisted before the call keeps its value, also when the first load
\* of the config failed and fell back to the defaults.
C27_UpdateKeepsOtherPersisted ==
    (result.op = "update_config" /\ result.pre_store # <<>> /\ store # <<>>) =>
        \A key \in DOMAIN store[1] \ C27_MayChange(result.arg) :
            store[1][key] = result.pre_store[1][key]

\* C29: a PUT /config the endpoint accepts, on a configuration that
\* validate_configuration finds valid, leaves a configuration that it
\* finds valid; so does a reset.
C29_AcceptedUpdatesStayValid ==
    (/\ result.op \in {"put_config", "reset_config"}
     /\ result.ok
     /\ result.pre_config # <<>> => validate_configuration(result.pre_config[1]).valid)
        => validate_configuration(heap[mgrCache]).valid

-----------------------------------------------------------------------------
(* Specification SpecConsumption: the consumption side of the engine over  *)
(* bounded demand datasets, the configuration loaded and left alone.       *)

MaxRecords == 2
MaxDays == 2

SeqsUpTo(S, n) == UNION {[1..k -> S] : k \in 0..n}

\* The region columns of a demand record: a plain value; a value beside a
\* NaN and a null; only null and NaN; a zero.
DemandProfiles ==
    {[r \in {"Calabria"} |-> PyFloat(Int2F(1000))],
     [r \in {"Calabria", "North", "Sicilia"} |->
         IF r = "Calabria" THEN PyFloat(Int2F(2000))
         ELSE IF r = "North" THEN PyFloat(NaN) ELSE PyNone],
     [r \in {"Calabria", "North"} |->
         IF r = "Calabria" THEN PyNone ELSE PyFloat(NaN)],
     [r \in {"Calabria"} |-> PyInt(0)]}

DemandHours == {6, 10}

DemandRecords == {[hour |-> h, vals |-> f] : h \in DemandHours, f \in DemandProfiles}

Row(h, p) == [hour |-> h, AC_POWER |-> p]

FixedSolar == [plant_1 |-> <<Row(12, Int2F(100))>>, plant_2 |-> <<Row(12, Int2F(50))>>]

ClockHours == 0..23

\* datetime.now(), in hours
NowChoices == {96, 105}

\* The service's configuration, loaded: _config and the manager's cache
\* refer to one object holding the stored document.
InitConfigLoaded ==
    /\ heap = [o \in {"o1"} |-> CommunityConfigDocument(0)]
    /\ mgrCache = "o1"
    /\ svcConfig = "o1"
    /\ store = <<CommunityConfigDocument(0)>>
    /\ clock = 0

EngineRes(op, hour, days, value, slots) ==
    [op |-> op, hour |-> hour, days |-> days, value |-> value, slots |-> slots]

\* Mutant: the query empties the demand series it has read.
frame_consuming_demand ==
    /\ data' = [data EXCEPT !.demand_data = <<>>]
    /\ UNCHANGED <<heap, mgrCache, svcConfig, store, clock, raw, canon, artifact>>

\* The query methods read self.data and the config and assign neither.
EngineFrame ==
    UNCHANGED <<data, heap, mgrCache, svcConfig, store, clock, raw, canon, artifact>>

EngineIdle == EngineRes("idle", 0, 0, Zero, <<>>)

\* The response reaches the caller and the service is idle again.
EngineRespond ==
    /\ result # EngineIdle
    /\ result' = EngineIdle
    /\ EngineFrame

InitConsumption ==
    /\ \E dd \in SeqsUpTo(DemandRecords, MaxRecords) :
           data = [demand_data |-> dd, plant_1 |-> FixedSolar.plant_1,
                   plant_2 |-> FixedSolar.plant_2]
    /\ InitConfigLoaded
    /\ InitFrame
    /\ result = EngineIdle

\* get_current_consumption() at each hour of the clock
CurrentConsumption ==
    \E current_hour \in ClockHours :
        /\ result = EngineIdle
        /\ result' = EngineRes("get_current_consumption", current_hour, 0,
                               get_current_consumption(current_hour, data,
                                                       heap[svcConfig]), <<>>)
        /\ EngineFrame

\* get_24h_energy_flow()
EnergyFlow24h ==
    \E now \in NowChoices :
        /\ result = EngineIdle
        /\ result' = EngineRes("get_24h_energy_flow", now, 1, Zero,
                               get_24h_energy_flow(now, data, heap[svcConfig]))
        /\ EngineFrame

\* get_energy_trends(days)
EnergyTrends ==
    \E now \in NowChoices, days \in 1..MaxDays :
        /\ result = EngineIdle
        /\ result' = EngineRes("get_energy_trends", now, days, Zero,
                               get_energy_trends(days, now, data, heap[svcConfig]))
        /\ EngineFrame

NextConsumption ==
    \/ CurrentConsumption
    \/ EnergyFlow24h
    \/ EnergyTrends
    \/ EngineRespond

SpecConsumption == InitConsumption /\ [][NextConsumption]_vars

C1_HoursWithRows == {data.demand_data[i].hour : i \in 1..Len(data.demand_data)}

C1_HoursBelow(target) == {h \in C1_HoursWithRows : h < target}
C1_HoursAbove(target) == {h \in C1_HoursWithRows : h > target}

C1_Greatest(S) == CHOOSE h \in S : \A g \in S : g <= h
C1_Least(S) == CHOOSE h \in S : \A g \in S : h <= g

C1_ConsumptionAt(h) == get_hour_consumption(h, data.demand_data, heap[svcConfig])

\* C1: at a target hour without demand rows the consumption is 0 when no
\* hour has rows, the consumption of the only side that has rows, and
\* otherwise before_value + (target-before)/(after-before) *
\* (after_value-before_value) between the nearest hours with rows.
C1_HourInterpolation ==
    (/\ result.op = "get_current_consumption"
     /\ result.hour \notin C1_HoursWithRows) =>
        LET target == result.hour
            B == C1_HoursBelow(target)
            A == C1_HoursAbove(target)
        IN  IF B = {} /\ A = {} THEN result.value = Zero
            ELSE IF B = {} THEN result.value = C1_ConsumptionAt(C1_Least(A))
            ELSE IF A = {} THEN result.value = C1_ConsumptionAt(C1_Greatest(B))
            ELSE LET before == C1_Greatest(B)
                     after == C1_Least(A)
                 IN  FEq(result.value,
                         FAdd(C1_ConsumptionAt(before),
                              FMul(Num(target - before, after - before),
                                   FSub(C1_ConsumptionAt(after),
                                        C1_ConsumptionAt(before)))))

\* C1 witness: 100 kW at hour 6 and 200 kW at hour 10 give 125 kW at hour 7.
C1_Witness ==
    /\ result.op = "get_current_consumption"
    /\ result.hour = 7
    /\ C1_HoursWithRows = {6, 10}
    /\ C1_ConsumptionAt(6) = Int2F(100)
    /\ C1_ConsumptionAt(10) = Int2F(200)
    /\ result.value = Int2F(125)

C2_SlotOps == {"get_24h_energy_flow", "get_energy_trends"}

\* C2: every slot of the 24 h flow and of the trends carries, rounded to
\* two decimals, the current consumption and the current generation of
\* its hour of day.
C2_SlotsMatchCurrentMetrics ==
    result.op \in C2_SlotOps =>
        \A i \in 1..Len(result.slots) :
            LET hour == HourOf(result.slots[i].date)
            IN  /\ result.slots[i].consumed =
                       Round2(get_current_consumption(hour, data, heap[svcConfig]))
                /\ result.slots[i].produced =
                       Round2(get_current_generation(hour, data))

\* C13: get_energy_trends(days) returns 24*days slots for every days >= 1,
\* one hour apart in chronological order, the last one an hour before now;
\* two slots at the same hour of day carry the same produced, consumed,
\* sold, bought and efficiency.
C13_TrendsWindow ==
    result.op = "get_energy_trends" =>
        LET slots == result.slots
            total_hours == 24 * result.days
        IN  /\ Len(slots) = total_hours
            /\ \A i \in 1..Len(slots) : slots[i].date = result.hour - total_hours + i - 1
            /\ Len(slots) > 0 => slots[Len(slots)].date = result.hour - 1
            /\ \A i, j \in 1..Len(slots) :
                   HourOf(slots[i].date) = HourOf(slots[j].date) =>
                       /\ slots[i].produced = slots[j].produced
                       /\ slots[i].consumed = slots[j].consumed
                       /\ slots[i].sold = slots[j].sold
                       /\ slots[i].bought = slots[j].bought
                       /\ slots[i].efficiency = slots[j].efficiency

\* Two days of trends over a dataset whose hours differ: 48 slots, the
\* first two unlike, the first and the 25th alike.
C13_Witness ==
    /\ result.op = "get_energy_trends"
    /\ result.days = 2
    /\ Len(result.slots) = 48
    /\ result.slots[7].consumed # result.slots[8].consumed
    /\ result.slots[7].consumed = result.slots[31].consumed
    /\ FGt(result.slots[7].consumed, Zero)

C7_AllValuesMissing ==
    \A i \in 1..Len(data.demand_data) :
        \A r \in DOMAIN data.demand_data[i].vals :
            LET v == data.demand_data[i].vals[r]
            IN  v.t = "none" \/ v.k = "nan"

\* C7: when every region value of every demand record is null or NaN the
\* current consumption is exactly 0 at every hour, with rows at the hour
\* or without.
C7_MissingDemandGivesZero ==
    (result.op = "get_current_consumption" /\ C7_AllValuesMissing) =>
        result.value = Zero

\* C7 witness: null/NaN-only records at hours 6 and 10, asked at hour 8,
\* where the value is interpolated.
C7_Witness ==
    /\ result.op = "get_current_consumption"
    /\ C7_AllValuesMissing
    /\ C1_HoursWithRows = {6, 10}
    /\ result.hour = 8
    /\ result.value = Zero

-----------------------------------------------------------------------------
(* Specification SpecGeneration: current generation over bounded solar     *)
(* series.                                                                 *)

MaxRows == 2

SolarRows == {Row(12, Zero), Row(12, Int2F(100)), Row(6, Int2F(50))}

InitGeneration ==
    /\ \E p1 \in SeqsUpTo(SolarRows, MaxRows), p2 \in SeqsUpTo(SolarRows, MaxRows) :
           data = [demand_data |-> FixedSnapshot.demand_data,
                   plant_1 |-> p1, plant_2 |-> p2]
    /\ InitConfigLoaded
    /\ InitFrame
    /\ result = EngineIdle

\* get_current_generation() at each hour of the clock
CurrentGeneration ==
    \E current_hour \in ClockHours :
        /\ result = EngineIdle
        /\ result' = EngineRes("get_current_generation", current_hour, 0,
                               get_current_generation(current_hour, data), <<>>)
        /\ EngineFrame

NextGeneration ==
    \/ CurrentGeneration
    \/ EngineRespond

SpecGeneration == InitGeneration /\ [][NextGeneration]_vars

C8_PositiveAt(rows, hour) ==
    {i \in 1..Len(rows) : rows[i].hour = hour /\ FGt(rows[i].AC_POWER, Zero)}

RECURSIVE C8_PowerTotal(_, _)
C8_PowerTotal(rows, is) ==
    IF is = {} THEN Zero
    ELSE LET i == CHOOSE j \in is : TRUE
         IN  FAdd(rows[i].AC_POWER, C8_PowerTotal(rows, is \ {i}))

C8_PlantAverage(rows, hour) ==
    LET is == C8_PositiveAt(rows, hour)
    IN  IF is = {} THEN Zero
        ELSE FDiv(C8_PowerTotal(rows, is), Int2F(Cardinality(is)))

\* C8: current generation at hour h is the sum of the two plants' average
\* AC_POWER over their rows at h with positive power, a plant without such
\* rows contributing 0, and is 0 only when neither plant has such a row.
C8_GenerationIsSumOfPlantAverages ==
    result.op = "get_current_generation" =>
        /\ FEq(result.value,
               FAdd(C8_PlantAverage(data.plant_1, result.hour),
                    C8_PlantAverage(data.plant_2, result.hour)))
        /\ (result.value = Zero =>
                /\ C8_PositiveAt(data.plant_1, result.hour) = {}
                /\ C8_PositiveAt(data.plant_2, result.hour) = {})

-----------------------------------------------------------------------------
(* Specification SpecNumeric: the scalar helpers on bounded inputs.        *)

\* A value float() cannot parse, e.g. the string "abc"
PyBad == [t |-> "other", k |-> "bad", n |-> 0, d |-> 1]

\* Values handed to _safe_float: None; floats, among them NaN and the two
\* infinities; an int; and non-float objects carrying a number, a NaN or an
\* infinity (decimal.Decimal, numpy.float32, str).
SafeFloatInputs ==
    {PyNone, PyFloat(NaN), PyFloat(PosInf), PyFloat(NegInf),
     PyFloat(Num(7, 2)), PyFloat(Zero), PyFloat(Int2F(-2)), PyInt(3),
     PyOther(NaN), PyOther(PosInf), PyOther(NegInf), PyOther(Num(7, 2)), PyBad}

\* Generation and consumption readings, in kW
PowerChoices ==
    {Int2F(-10), Zero, Num(1, 2), Num(7, 3), Int2F(50), Int2F(100), Int2F(150),
     Int2F(300), Int2F(500), Int2F(1000)}

NumRes(op, arg, generation, consumption, out, drs) ==
    [op |-> op, arg |-> arg, generation |-> generation,
     consumption |-> consumption, out |-> out, drs |-> drs]

NumIdle == NumRes("idle", PyNone, Zero, Zero, <<>>, Zero)

InitNumeric ==
    /\ data = FixedSnapshot
    /\ InitConfigLoaded
    /\ InitFrame
    /\ result = NumIdle

\* _safe_float(value) of both services on the same value
CallSafeFloat ==
    \E value \in SafeFloatInputs :
        /\ result = NumIdle
        /\ result' = NumRes("safe_float", value, Zero, Zero,
                            <<safe_float(value)>>, drs_safe_float(value))
        /\ EngineFrame

\* get_energy_source_breakdown(generation, consumption)
CallSourceBreakdown ==
    \E generation \in PowerChoices, consumption \in PowerChoices :
        /\ result = NumIdle
        /\ result' = NumRes("get_energy_source_breakdown", PyNone,
                            generation, consumption,
                            <<get_energy_source_breakdown(generation, consumption)>>,
                            Zero)
        /\ EngineFrame

\* _calculate_efficiency(generation, consumption)
CallEfficiency ==
    \E generation \in PowerChoices, consumption \in PowerChoices :
        /\ result = NumIdle
        /\ result' = NumRes("calculate_efficiency", PyNone, generation, consumption,
                            <<calculate_efficiency(generation, consumption)>>, Zero)
        /\ EngineFrame

NumRespond ==
    /\ result # NumIdle
    /\ result' = NumIdle
    /\ EngineFrame

NextNumeric ==
    \/ CallSafeFloat
    \/ CallSourceBreakdown
    \/ CallEfficiency
    \/ NumRespond

SpecNumeric == InitNumeric /\ [][NextNumeric]_vars

\* C9: safe-float maps None, NaN and the infinities to 0.0 and every other
\* number to itself, whatever type carries it, and the two implementations
\* return the same value on every input.
C9_SafeFloatTotalAndAgreeing ==
    result.op = "safe_float" =>
        LET v == result.arg
            dps == result.out[1]
        IN  /\ (v.t = "none" \/ v.k \in {"nan", "inf", "ninf"}) => dps = Zero
            /\ (v.t # "none" /\ v.k = "num") => FEq(dps, Num(v.n, v.d))
            /\ dps = result.drs

\* C10: with total = max(generation, consumption), the breakdown is 0/0
\* when total <= 0, else solar = generation/total*100 and
\* grid = (consumption-generation)/total*100 when consumption > generation,
\* 0 otherwise.
C10_SourceBreakdown ==
    result.op = "get_energy_source_breakdown" =>
        LET g == result.generation
            c == result.consumption
            total == IF FGt(c, g) THEN c ELSE g
            b == result.out[1]
        IN  IF ~FGt(total, Zero) THEN b.solar = Zero /\ b.grid = Zero
            ELSE /\ FEq(FMul(b.solar, total), FMul(g, Int2F(100)))
                 /\ IF FGt(c, g)
                    THEN FEq(FMul(b.grid, total), FMul(FSub(c, g), Int2F(100)))
                    ELSE b.grid = Zero

\* C10 witness: a deficit, 50 kW generated against 100 kW consumed, is
\* reported as 50 % solar and 50 % grid.
C10_Witness ==
    /\ result.op = "get_energy_source_breakdown"
    /\ result.generation = Int2F(50)
    /\ result.consumption = Int2F(100)
    /\ result.out[1] = [solar |-> Int2F(50), grid |-> Int2F(50)]

\* C11: slot efficiency is min(1, generation/consumption) when consumption
\* is positive and 0 otherwise, hence within [0, 1] for a non-negative
\* generation.
C11_EfficiencyClamped ==
    result.op = "calculate_efficiency" =>
        LET g == result.generation
            c == result.consumption
            e == result.out[1]
        IN  /\ FGt(c, Zero) =>
                   IF FGt(FDiv(g, c), Int2F(1)) THEN e = Int2F(1)
                   ELSE FEq(FMul(e, c), g)
            /\ FLe(c, Zero) => e = Zero
            /\ FLe(Zero, g) => FLe(Zero, e) /\ FLe(e, Int2F(1))

\* C11 witness: 150 kW generated against 100 kW consumed is reported as 1.0.
C11_Witness ==
    /\ result.op = "calculate_efficiency"
    /\ result.generation = Int2F(150)
    /\ result.consumption = Int2F(100)
    /\ result.out[1] = Int2F(1)

-----------------------------------------------------------------------------
(* Specification SpecTransform: the market workbooks are transformed into  *)
(* the canonical dataset, saved as JSON and loaded by the service.         *)

MaxRaw == 2

MinutesPerHour == 60
MinutesPerPeriod == 15

\* Rows of the price workbook: date, hour (1..24), period (1..4), price
RawPunRows ==
    {[date |-> 0, hour |-> 1, period |-> 1, price_eur_mwh |-> PyFloat(Int2F(120))],
     [date |-> 0, hour |-> 8, period |-> 1, price_eur_mwh |-> PyFloat(Zero)],
     [date |-> 0, hour |-> 24, period |-> 4, price_eur_mwh |-> PyFloat(Int2F(60))]}

\* Rows of the demand workbook: date, hour (1..24), period (1..4), regions
RawDemandRows ==
    {[date |-> 0, hour |-> h, period |-> p,
      vals |-> [r \in {"Calabria"} |-> PyFloat(Int2F(1000))]] :
        h \in {1, 8, 24}, p \in {1, 4}}

\* pd.to_datetime(date) + to_timedelta(hour - 1, 'h')
\*                      + to_timedelta((period - 1) * 15, 'm'), in minutes
RowDatetime(row) ==
    row.date * HoursPerDay * MinutesPerHour
        + (row.hour - 1) * MinutesPerHour
        + (row.period - 1) * MinutesPerPeriod

\* Timestamp.hour
DatetimeHour(minutes) == (minutes \div MinutesPerHour) % HoursPerDay

\* pd.to_numeric(value, errors='coerce')
to_numeric(value) ==
    IF value.t = "none" \/ ToFloat(value) = Raised THEN PyFloat(NaN)
    ELSE PyFloat(ToFloat(value))

\* pd.cut(df['price_eur_mwh'], bins=[0, 50, 70, 100, float('inf')],
\*        labels=['Low', 'Medium', 'High', 'Very High']): the bins are
\* open on the left and closed on the right, and a value in no bin, or
\* NaN, gets the missing category
PriceCategory(price) ==
    IF FGt(price, Zero) /\ FLe(price, Int2F(50)) THEN "Low"
    ELSE IF FGt(price, Int2F(50)) /\ FLe(price, Int2F(70)) THEN "Medium"
    ELSE IF FGt(price, Int2F(70)) /\ FLe(price, Int2F(100)) THEN "High"
    ELSE IF FGt(price, Int2F(100)) \/ price = PosInf THEN "Very High"
    ELSE "NaN"

\* ItalianMarketDataTransformer.load_pun_data: the records of the frame
load_pun_data(rows) ==
    [i \in 1..Len(rows) |->
        LET row == rows[i]
            price == to_numeric(row.price_eur_mwh)
        IN  [date |-> row.date, hour |-> row.hour, period |-> row.period,
             datetime |-> RowDatetime(row),
             price_eur_mwh |-> price,
             price_eur_kwh |-> PyFloat(FDiv(ToFloat(price), Int2F(1000))),
             is_peak_hour |-> (row.hour >= 8 /\ row.hour <= 20),
             price_category |-> PriceCategory(ToFloat(price))]]

\* ItalianMarketDataTransformer.load_demand_data: the records of the frame
load_demand_data(rows) ==
    [i \in 1..Len(rows) |->
        LET row == rows[i]
        IN  [date |-> row.date, hour |-> row.hour, period |-> row.period,
             datetime |-> RowDatetime(row),
             vals |-> [r \in DOMAIN row.vals |-> to_numeric(row.vals[r])]]]

\* create_energy_analytics, demand_stats: the mask that selects the rows
\* of peak_hour_avg (its negation those of off_peak_avg),
\* demand_data['datetime'].dt.hour.between(8, 20)
DemandPeakMask(record) ==
    DatetimeHour(record.datetime) >= 8 /\ DatetimeHour(record.datetime) <= 20

\* ItalianMarketDataTransformer.load_zonal_prices: the records of the
\* frame, each zone beside its spread against the national price
load_zonal_prices(rows) ==
    [i \in 1..Len(rows) |->
        LET row == rows[i]
            numeric == [z \in DOMAIN row.vals |-> to_numeric(row.vals[z])]
        IN  [datetime |-> RowDatetime(row),
             vals |-> numeric,
             spread_vs_national |->
                 IF "Italia" \in DOMAIN numeric
                 THEN [z \in DOMAIN numeric \ {"Italia"} |->
                          FSub(ToFloat(numeric[z]), ToFloat(numeric["Italia"]))]
                 ELSE <<>>]]

\* merged_df['AC_POWER'] / merged_df['DC_POWER'], .fillna(0): pandas
\* division, inf over a zero DC_POWER and NaN (filled with 0) for 0/0
PlantEfficiency(ac, dc) ==
    IF dc = Zero THEN (IF ac = Zero THEN Zero
                       ELSE IF FGt(ac, Zero) THEN PosInf ELSE NegInf)
    ELSE FDiv(ac, dc)

\* ItalianMarketDataTransformer.load_solar_plant_data: the records of the
\* hourly frame
load_solar_plant_data(rows) ==
    [i \in 1..Len(rows) |->
        LET row == rows[i]
        IN  [datetime |-> row.datetime,
             AC_POWER |-> row.AC_POWER,
             DC_POWER |-> row.DC_POWER,
             efficiency |-> PlantEfficiency(row.AC_POWER, row.DC_POWER),
             hour |-> DatetimeHour(row.datetime),
             is_producing |-> FGt(row.AC_POWER, Zero)]]

Sources == {"pun", "zonal", "demand", "plant_1", "plant_2"}

\* pd.DataFrame(): what a loader returns from its except branch
EmptyFrame == [columns |-> {}, records |-> <<>>]

\* The frame a loader returns: its records under its columns, or, when
\* the source cannot be read, pd.DataFrame()
Frame(r, source, columns, records) ==
    IF source \in r.failed THEN EmptyFrame
    ELSE [columns |-> columns, records |-> records]

PunFrame(r) ==
    Frame(r, "pun", {"date", "hour", "period", "datetime", "price_eur_mwh",
                     "price_eur_kwh", "is_peak_hour", "price_category"},
          load_pun_data(r.pun))

ZonalFrame(r) ==
    Frame(r, "zonal", {"datetime", "Italia", "Calabria"}, load_zonal_prices(r.zonal))

DemandFrame(r) ==
    Frame(r, "demand", {"date", "hour", "period", "datetime", "Total Italy",
                        "Calabria"}, load_demand_data(r.demand))

PlantFrame(r, plant) ==
    Frame(r, plant, {"datetime", "AC_POWER", "DC_POWER", "efficiency", "hour",
                     "is_producing"}, load_solar_plant_data(r[plant]))

\* ItalianMarketDataTransformer.create_trading_opportunities: the records
\* of pd.merge(pun_data[['datetime', 'price_eur_mwh']], zonal_data,
\* on='datetime'); a frame without the columns raises KeyError and the
\* except branch returns pd.DataFrame()
create_trading_opportunities(pun_data, zonal_data) ==
    IF "price_eur_mwh" \notin pun_data.columns \/ "datetime" \notin zonal_data.columns
    THEN <<>>
    ELSE LET pairs == {<<i, j>> \in (1..Len(pun_data.records))
                                     \X (1..Len(zonal_data.records)) :
                          pun_data.records[i].datetime
                              = zonal_data.records[j].datetime}
             merged[k \in 0..Len(pun_data.records)] ==
                 IF k = 0 THEN <<>>
                 ELSE merged[k - 1] \o
                      [j \in 1..Cardinality({q \in pairs : q[1] = k}) |->
                          [datetime |-> pun_data.records[k].datetime,
                           price_eur_mwh |-> pun_data.records[k].price_eur_mwh]]
         IN  merged[Len(pun_data.records)]

\* Series.max() of the numeric values, NaN for an empty series
SeriesMax(values) ==
    IF values = <<>> THEN NaN
    ELSE CHOOSE m \in {values[i] : i \in 1..Len(values)} :
             \A i \in 1..Len(values) : FLe(values[i], m)

AnalyticsStats(key, pun_data, demand_data, solar) ==
    IF key = "price_stats"
    THEN [k \in {"max_price"} |->
             SeriesMax(SelectSeq([i \in 1..Len(pun_data.records) |->
                                     ToFloat(pun_data.records[i].price_eur_mwh)],
                                 IsNum))]
    ELSE IF key = "demand_stats"
    THEN [k \in {"max_demand"} |->
             SeriesMax(SelectSeq([i \in 1..Len(demand_data.records) |->
                                     ToFloat(DictGet(demand_data.records[i].vals,
                                                     "Total Italy", PyFloat(NaN)))],
                                 IsNum))]
    ELSE LET hourly == solar[key].records
         IN  [k \in {"total_production_kwh", "max_power_kw"} |->
                 IF k = "total_production_kwh"
                 THEN FMul(FSum([i \in 1..Len(hourly) |-> hourly[i].AC_POWER]),
                           Num(1, 4))
                 ELSE SeriesMax([i \in 1..Len(hourly) |-> hourly[i].AC_POWER])]

\* ItalianMarketDataTransformer.create_energy_analytics, solar keyed by
\* the name of the statistics ("plant_1_stats", "plant_2_stats").
\* pun_data['price_eur_mwh'] on a frame without that column raises
\* KeyError and the except branch returns {}.
create_energy_analytics(pun_data, demand_data, solar) ==
    IF "price_eur_mwh" \notin pun_data.columns THEN <<>>
    ELSE LET keys == {"price_stats"}
                     \cup (IF "Total Italy" \in demand_data.columns
                           THEN {"demand_stats"} ELSE {})
                     \cup {k \in DOMAIN solar : solar[k].records # <<>>}
         IN  [key \in keys |-> AnalyticsStats(key, pun_data, demand_data, solar)]

\* ItalianMarketDataTransformer.transform_all_data: the structured result
transform_all_data(r) ==
    LET pun_data == PunFrame(r)
        zonal_data == ZonalFrame(r)
        demand_data == DemandFrame(r)
        solar_plant_1 == PlantFrame(r, "plant_1")
        solar_plant_2 == PlantFrame(r, "plant_2")
        trading_opportunities == create_trading_opportunities(pun_data, zonal_data)
        analytics ==
            create_energy_analytics(
                pun_data, demand_data,
                [k \in {"plant_1_stats", "plant_2_stats"} |->
                    IF k = "plant_1_stats" THEN solar_plant_1 ELSE solar_plant_2])
    IN  [pun_prices |-> pun_data.records,
         zonal_prices |-> zonal_data.records,
         demand_data |-> demand_data.records,
         trading_opportunities |-> trading_opportunities,
         plant_1 |-> solar_plant_1.records,
         plant_2 |-> solar_plant_2.records,
         analytics |-> analytics,
         total_records |->
             [pun_prices |-> Len(pun_data.records),
              zonal_prices |-> Len(zonal_data.records),
              demand_data |-> Len(demand_data.records),
              solar_plant_1 |-> Len(solar_plant_1.records),
              solar_plant_2 |-> Len(solar_plant_2.records)]]

\* str(Timestamp), as json.dump(..., default=str) writes it
TimestampStr(minutes) ==
    [day |-> minutes \div (HoursPerDay * MinutesPerHour),
     hh |-> DatetimeHour(minutes),
     mm |-> minutes % MinutesPerHour]

JsonRecord(rec) == [rec EXCEPT !.datetime = TimestampStr(rec.datetime)]

\* json.dump of a list of records
JsonRecords(records) == [i \in 1..Len(records) |-> JsonRecord(records[i])]

\* The file of a transformer whose transformed_data is still {}
EmptyFile ==
    [pun_prices |-> <<>>, zonal_prices |-> <<>>, demand_data |-> <<>>,
     trading_opportunities |-> <<>>, plant_1 |-> <<>>, plant_2 |-> <<>>,
     analytics |-> <<>>, total_records |-> <<>>]

\* Mutant: the zonal series written without its last record.
save_zonal_truncated(transformed) ==
    IF transformed = <<>> THEN EmptyFile
    ELSE [transformed[1] EXCEPT
             !.pun_prices = JsonRecords(@),
             !.zonal_prices = JsonRecords(SubSeq(@, 1, Len(@) - 1)),
             !.demand_data = JsonRecords(@),
             !.trading_opportunities = JsonRecords(@),
             !.plant_1 = JsonRecords(@),
             !.plant_2 = JsonRecords(@)]

\* ItalianMarketDataTransformer.save_transformed_data: the file's content;
\* before any transformation self.transformed_data is {} and the file holds
\* no records.
save_transformed_data(transformed) ==
    IF transformed = <<>> THEN EmptyFile
    ELSE [transformed[1] EXCEPT
             !.pun_prices = JsonRecords(@),
             !.zonal_prices = JsonRecords(@),
             !.demand_data = JsonRecords(@),
             !.trading_opportunities = JsonRecords(@),
             !.plant_1 = JsonRecords(@),
             !.plant_2 = JsonRecords(@)]

\* DataPresentationService._load_data: {} when the file does not exist, so
\* that every .get() on it yields its default
load_data(file) ==
    IF file = <<>> THEN EmptyFile ELSE file[1]

InitTransform ==
    /\ \E pun \in SeqsUpTo(RawPunRows, MaxRaw),
          demand \in SeqsUpTo(RawDemandRows, MaxRaw) :
           raw = [pun |-> pun, demand |-> demand, zonal |-> <<>>,
                  plant_1 |-> <<>>, plant_2 |-> <<>>, failed |-> {}]
    /\ canon = <<>>
    /\ artifact = <<>>
    /\ data = load_data(<<>>)
    /\ InitConfigLoaded
    /\ result = EngineIdle

TransformAllData ==
    /\ result = EngineIdle
    /\ canon' = <<transform_all_data(raw)>>
    /\ UNCHANGED <<data, heap, mgrCache, svcConfig, store, clock, raw, artifact,
                   result>>

SaveTransformedData ==
    /\ result = EngineIdle
    /\ artifact' = <<save_transformed_data(canon)>>
    /\ UNCHANGED <<data, heap, mgrCache, svcConfig, store, clock, raw, canon,
                   result>>

\* DataPresentationService.__init__: self.data = self._load_data()
LoadData ==
    /\ result = EngineIdle
    /\ data' = load_data(artifact)
    /\ UNCHANGED <<heap, mgrCache, svcConfig, store, clock, raw, canon, artifact,
                   result>>

\* get_current_consumption() on the loaded dataset; slots holds the records
\* the hour filter selected
LoadedConsumption ==
    \E current_hour \in {0, 1, 23} :
        /\ result = EngineIdle
        /\ result' = EngineRes("get_current_consumption", current_hour, 0,
                               get_current_consumption(current_hour, data,
                                                       heap[svcConfig]),
                               RowsAtHour(data.demand_data, current_hour))
        /\ EngineFrame

NextTransform ==
    \/ TransformAllData
    \/ SaveTransformedData
    \/ LoadData
    \/ LoadedConsumption
    \/ EngineRespond

SpecTransform == InitTransform /\ [][NextTransform]_vars

C5_StoredRecords ==
    IF canon = <<>> THEN <<>>
    ELSE canon[1].pun_prices \o canon[1].demand_data

\* C5: every price and demand record of the canonical dataset has an hour
\* field in 0..23 equal to the hour-of-day of its timestamp.
C5_StoredHourIsHourOfTimestamp ==
    \A i \in 1..Len(C5_StoredRecords) :
        /\ C5_StoredRecords[i].hour \in 0..(HoursPerDay - 1)
        /\ C5_StoredRecords[i].hour = DatetimeHour(C5_StoredRecords[i].datetime)

\* C24: a price record and a demand record of the canonical dataset with
\* the same timestamp are classified alike, both peak or both off-peak, by
\* is_peak_hour and by the mask of the demand peak statistics.
C24_OnePeakWindow ==
    canon # <<>> =>
        \A i \in 1..Len(canon[1].pun_prices) :
            \A j \in 1..Len(canon[1].demand_data) :
                canon[1].pun_prices[i].datetime = canon[1].demand_data[j].datetime
                    => canon[1].pun_prices[i].is_peak_hour
                           = DemandPeakMask(canon[1].demand_data[j])

\* C25: every price record with a numeric price has the category of the
\* fixed breakpoints: Low up to 50 (0 and negative prices included), Medium
\* up to 70, High up to 100, Very High above.
C25_EveryNumericPriceHasCategory ==
    canon # <<>> =>
        \A i \in 1..Len(canon[1].pun_prices) :
            LET price == ToFloat(canon[1].pun_prices[i].price_eur_mwh)
            IN  IsNum(price) =>
                    canon[1].pun_prices[i].price_category
                        = IF FLe(price, Int2F(50)) THEN "Low"
                          ELSE IF FLe(price, Int2F(70)) THEN "Medium"
                          ELSE IF FLe(price, Int2F(100)) THEN "High"
                          ELSE "Very High"

-----------------------------------------------------------------------------
(* SpecDashboard: the dashboard request and the metrics it gathers, over   *)
(* a loaded snapshot, with the stored configuration not yet read.          *)

MaxFailed == 1

\* One price record of the snapshot
PunEntry(kwh, mwh) ==
    [k \in {"price_eur_kwh", "price_eur_mwh"} |->
        IF k = "price_eur_kwh" THEN kwh ELSE mwh]

DashPrices ==
    <<PunEntry(PyFloat(Num(12, 100)), PyFloat(Int2F(120))),
      PunEntry(PyFloat(Num(25, 100)), PyFloat(Int2F(250)))>>

DashDemand(mw) ==
    [hour |-> 6,
     vals |-> [r \in {"Calabria", "Total Italy"} |->
                 IF r = "Calabria" THEN PyFloat(mw) ELSE PyFloat(Int2F(40000))]]

\* data['analytics']: per plant, total_production_kwh = sum(AC_POWER) * 0.25
DashAnalytics ==
    [k \in {"plant_1_stats", "plant_2_stats"} |->
        [s \in {"total_production_kwh"} |->
            IF k = "plant_1_stats" THEN Int2F(100) ELSE Int2F(50)]]

\* Loaded snapshots: demand at hour 6 and both plants at hour 12; a plant
\* reading with thirds; no demand records; and the empty dataset _load_data
\* yields when the file is missing.
DashSnapshots ==
    {[demand_data |-> <<DashDemand(Int2F(1000))>>,
      plant_1 |-> <<Row(12, Int2F(100))>>, plant_2 |-> <<Row(12, Int2F(50))>>,
      pun_prices |-> DashPrices, analytics |-> DashAnalytics],
     [demand_data |-> <<DashDemand(Int2F(30))>>,
      plant_1 |-> <<Row(12, Num(7, 3)), Row(6, Int2F(2))>>,
      plant_2 |-> <<Row(12, Int2F(50))>>,
      pun_prices |-> DashPrices, analytics |-> DashAnalytics],
     [demand_data |-> <<>>,
      plant_1 |-> <<Row(12, Int2F(100))>>, plant_2 |-> <<Row(12, Int2F(50))>>,
      pun_prices |-> <<>>, analytics |-> DashAnalytics],
     [demand_data |-> <<>>, plant_1 |-> <<>>, plant_2 |-> <<>>,
      pun_prices |-> <<>>, analytics |-> <<>>]}

\* The stored configuration: the defaults after
\* update_config(regional_to_community_scaling=0.005)
StoredConfig ==
    [CommunityConfigDocument(0) EXCEPT !.regional_to_community_scaling = Num(5, 1000)]

\* datetime.now(), in hours: 06:00 and 12:00
DashNow == {102, 108}

\* get_all_users_data(): no user, or two users with a battery each
UserChoices ==
    LET User(capacity, soc) ==
            [k \in {"battery_capacity_kwh", "battery_soc_pct"} |->
                IF k = "battery_capacity_kwh" THEN Int2F(capacity) ELSE Int2F(soc)]
    IN  {<<>>, <<User(10, 80), User(5, 50)>>}

\* list_community_alerts(limit=10)
Notices == <<"maintenance">>

DashRes(op, now, fails, generation, consumption, loaded, config, users, out) ==
    [op |-> op, now |-> now, fails |-> fails, generation |-> generation,
     consumption |-> consumption, loaded |-> loaded, config |-> config,
     users |-> users, out |-> out]

InitDashboard ==
    /\ data \in DashSnapshots
    /\ heap = <<>>
    /\ mgrCache = NoRef
    /\ svcConfig = NoRef
    /\ store = <<StoredConfig>>
    /\ clock = 0
    /\ InitFrame
    /\ result = EngineIdle

\* get_net_balance and get_grid_export on the same readings
NetAndExport ==
    \E generation \in PowerChoices, consumption \in PowerChoices :
        /\ result = EngineIdle
        /\ result' = DashRes("get_net_balance", 0, {}, generation, consumption,
                             FALSE, <<>>, <<>>,
                             <<[net |-> get_net_balance(generation, consumption),
                                export |-> get_grid_export(generation, consumption)]>>)
        /\ EngineFrame

\* GET /dashboard -> get_community_dashboard_data(), at most MaxFailed of
\* its fetches failing; "config" in fails: the database is unreachable when
\* the configuration is first read
DashboardData ==
    \E now \in DashNow, all_users \in UserChoices,
       fails \in {f \in SUBSET (Fetches \cup {"config"}) : Cardinality(f) <= MaxFailed} :
        LET g == svc_get_config(Mgr, svcConfig, "config" \notin fails, clock)
            config == g.m.heap[g.ref]
        IN  /\ result = EngineIdle
            /\ svcConfig' = g.ref
            /\ SetMgr(g.m)
            /\ result' = DashRes("get_community_dashboard_data", now, fails,
                                 Zero, Zero, svcConfig = NoRef, <<config>>,
                                 all_users,
                                 <<get_community_dashboard_data(
                                       now, data, config, all_users, Notices,
                                       fails)>>)
            /\ UNCHANGED <<data, clock, raw, canon, artifact>>

NextDashboard ==
    \/ NetAndExport
    \/ DashboardData
    \/ EngineRespond

SpecDashboard == InitDashboard /\ [][NextDashboard]_vars

\* C12: the net balance is generation - consumption, the grid export is
\* max(0, net balance) -- never negative, the net balance on a surplus and
\* 0 on a deficit -- and the net of a dashboard response is its live
\* generation minus its live consumption.
C12_NetBalanceAndExport ==
    /\ result.op = "get_net_balance" =>
           LET net == result.out[1].net
               export == result.out[1].export
           IN  /\ net = FSub(result.generation, result.consumption)
               /\ export = FMax(Zero, net)
               /\ FLe(Zero, export)
               /\ FGt(net, Zero) => export = net
               /\ FLt(net, Zero) => export = Zero
    /\ (result.op = "get_community_dashboard_data"
        /\ result.out[1] # EmptyResponse) =>
           LET flow == result.out[1].total_energy_flow
           IN  flow.net = FSub(flow.generation.live, flow.consumption.live)

\* A deficit of 50 kW reported with no export, and a dashboard response in
\* deficit.
C12_Witness ==
    \/ /\ result.op = "get_net_balance"
       /\ result.generation = Int2F(50)
       /\ result.consumption = Int2F(100)
       /\ result.out[1] = [net |-> Int2F(-50), export |-> Zero]
    \/ /\ result.op = "get_community_dashboard_data"
       /\ result.fails = {}
       /\ result.out[1] # EmptyResponse
       /\ FLt(result.out[1].total_energy_flow.net, Zero)
       /\ FGt(result.out[1].total_energy_flow.generation.live, Zero)

\* The response to the same request when no sub-fetch fails
C14_Unfailed ==
    get_community_dashboard_data(result.now, data, result.config[1],
                                 result.users, Notices, {})

\* C14: a dashboard request in which one sub-fetch fails still returns
\* the whole response: the failed section holds its default (no notices,
\* an empty storage network and no members, a live reading of 0, the
\* fallback grid or carbon record, the default configuration) and every
\* section that does not use the failed fetch holds the value it has when
\* nothing fails.
C14_OneFailureDegradesOneSection ==
    (result.op = "get_community_dashboard_data" /\ Cardinality(result.fails) = 1) =>
        LET r == result.out[1]
            u == C14_Unfailed
        IN  /\ r # EmptyResponse
            /\ DOMAIN r = DOMAIN u
            /\ "notices" \in result.fails =>
                   r = [u EXCEPT !.alerts_system_notices = <<>>]
            /\ "devices" \in result.fails =>
                   r = [u EXCEPT !.storage_network =
                                     [total_capacity |-> Zero, aggregate_soc |-> Zero],
                                 !.participation_summary = [active_members |-> 0]]
            /\ "grid" \in result.fails =>
                   r = [u EXCEPT !.grid_interaction = GridInteractionFallback]
            /\ "carbon" \in result.fails =>
                   r = [u EXCEPT !.carbon_metrics = CarbonFallback]
            /\ "generation" \in result.fails =>
                   /\ r.total_energy_flow.generation =
                          [u.total_energy_flow.generation EXCEPT !.live = Zero]
                   /\ r.total_energy_flow.consumption = u.total_energy_flow.consumption
                   /\ \A k \in DOMAIN r \ {"total_energy_flow", "grid_interaction"} :
                          r[k] = u[k]
            /\ "consumption" \in result.fails =>
                   /\ r.total_energy_flow.consumption =
                          [u.total_energy_flow.consumption EXCEPT !.live = Zero]
                   /\ r.total_energy_flow.generation = u.total_energy_flow.generation
                   /\ \A k \in DOMAIN r \ {"total_energy_flow", "grid_interaction"} :
                          r[k] = u[k]
            /\ "config" \in result.fails =>
                   /\ result.loaded => result.config[1] = CommunityConfigDocument(clock)
                   /\ ~result.loaded => result.config[1] = heap[svcConfig]
                   /\ r = u

\* The notice service fails during a request that reports generation,
\* consumption, stored batteries and a carbon offset.
C14_Witness ==
    /\ result.op = "get_community_dashboard_data"
    /\ result.fails = {"notices"}
    /\ result.out[1] # EmptyResponse
    /\ result.out[1].alerts_system_notices = <<>>
    /\ C14_Unfailed.alerts_system_notices = Notices
    /\ FGt(result.out[1].total_energy_flow.generation.live, Zero)
    /\ FGt(result.out[1].total_energy_flow.consumption.live, Zero)
    /\ FGt(result.out[1].storage_network.total_capacity, Zero)
    /\ FGt(result.out[1].carbon_metrics.total_offset_kg, Zero)

-----------------------------------------------------------------------------
(* SpecIngest: one run of the ingestion pipeline (main) over raw files of  *)
(* which at most one cannot be read, then the start of the service on the  *)
(* file it wrote.                                                          *)

MaxSource == 2

\* The rows of the raw file of one source: price rows (date, hour, period,
\* price), zonal and demand rows (date, hour, period, one value per zone),
\* plant rows (time in minutes, AC and DC power).
RawFile(source) ==
    LET Timed(h, p, rest) == [date |-> 0, hour |-> h, period |-> p] @@ rest
        PunRow(h, p, price) == Timed(h, p, [price_eur_mwh |-> PyFloat(Int2F(price))])
        ZoneRow(h, p, zone, first, second) ==
            Timed(h, p, [vals |-> [z \in {zone, "Calabria"} |->
                            PyFloat(Int2F(IF z = zone THEN first ELSE second))]])
        PlantRow(minutes, ac, dc) ==
            [datetime |-> minutes, AC_POWER |-> Int2F(ac), DC_POWER |-> Int2F(dc)]
    IN  CASE source = "pun" ->
               <<PunRow(1, 1, 120), PunRow(12, 1, 250),
                 PunRow(24, 4, 60), PunRow(24, 3, 90)>>
          [] source = "zonal" ->
               <<ZoneRow(1, 1, "Italia", 120, 130), ZoneRow(12, 1, "Italia", 250, 240),
                 ZoneRow(13, 1, "Italia", 200, 200), ZoneRow(14, 1, "Italia", 180, 190)>>
          [] source = "demand" ->
               <<ZoneRow(7, 1, "Total Italy", 30000, 1000),
                 ZoneRow(7, 2, "Total Italy", 32000, 1200),
                 ZoneRow(13, 1, "Total Italy", 28000, 900),
                 ZoneRow(14, 1, "Total Italy", 27000, 800)>>
          [] source = "plant_1" ->
               <<PlantRow(720, 100, 1000), PlantRow(735, 120, 1200),
                 PlantRow(0, 0, 0), PlantRow(780, 90, 900)>>
          [] source = "plant_2" ->
               <<PlantRow(720, 50, 500), PlantRow(360, 10, 0),
                 PlantRow(0, 0, 0), PlantRow(780, 40, 400)>>

\* The files hold up to MaxSource rows each; no source fails to load, or
\* exactly one does.
InitIngest ==
    /\ \E n \in [Sources -> 0..MaxSource],
          failed \in {{}} \cup {{source} : source \in Sources} :
           raw = [source \in Sources \cup {"failed"} |->
                     IF source = "failed" THEN failed
                     ELSE SubSeq(RawFile(source), 1,
                                 IF n[source] < Len(RawFile(source))
                                 THEN n[source] ELSE Len(RawFile(source)))]
    /\ canon = <<>>
    /\ artifact = <<>>
    /\ data = load_data(<<>>)
    /\ InitConfigLoaded
    /\ result = EngineIdle

\* main(): transform_all_data(), then save_transformed_data() if the
\* result is not empty
RunTransformation ==
    LET transformed_data == transform_all_data(raw)
    IN  /\ result = EngineIdle
        /\ canon = <<>>
        /\ canon' = <<transformed_data>>
        /\ artifact' = IF transformed_data # <<>>
                       THEN <<save_transformed_data(<<transformed_data>>)>>
                       ELSE artifact
        /\ UNCHANGED <<data, heap, mgrCache, svcConfig, store, clock, raw, result>>

\* DataPresentationService.__init__ on the file the run wrote
StartService ==
    /\ result = EngineIdle
    /\ artifact # <<>>
    /\ data # load_data(artifact)
    /\ data' = load_data(artifact)
    /\ UNCHANGED <<heap, mgrCache, svcConfig, store, clock, raw, canon, artifact,
                   result>>

\* _calculate_total_production_24h(self.data.get('analytics', {}))
TotalProduction24h ==
    /\ result = EngineIdle
    /\ artifact # <<>>
    /\ data = load_data(artifact)
    /\ result' = EngineRes("calculate_total_production_24h", 0, 0,
                           calculate_total_production_24h(data.analytics), <<>>)
    /\ EngineFrame

NextIngest ==
    \/ RunTransformation
    \/ StartService
    \/ TotalProduction24h
    \/ EngineRespond

SpecIngest == InitIngest /\ [][NextIngest]_vars

\* C26: the stored efficiency of every plant record is a finite number,
\* AC_POWER / DC_POWER, or 0 where DC_POWER is 0.
C26_EfficiencyIsFinite ==
    canon # <<>> /\ canon[1] # <<>> =>
        \A plant \in {"plant_1", "plant_2"} :
            \A i \in 1..Len(canon[1][plant]) :
                LET rec == canon[1][plant][i]
                IN  /\ IsNum(rec.efficiency)
                    /\ rec.efficiency = IF rec.DC_POWER = Zero THEN Zero
                                        ELSE FDiv(rec.AC_POWER, rec.DC_POWER)

\* The records a source gives when it is read
C15_Loaded(source) ==
    CASE source = "pun" -> load_pun_data(raw.pun)
      [] source = "zonal" -> load_zonal_prices(raw.zonal)
      [] source = "demand" -> load_demand_data(raw.demand)
      [] source = "plant_1" -> load_solar_plant_data(raw.plant_1)
      [] source = "plant_2" -> load_solar_plant_data(raw.plant_2)

\* The series of a snapshot that holds a source: market_data.pun_prices,
\* market_data.zonal_prices, market_data.demand_data,
\* solar_data.plant_N.hourly
SourceSeries(snapshot, source) ==
    CASE source = "pun" -> snapshot.pun_prices
      [] source = "zonal" -> snapshot.zonal_prices
      [] source = "demand" -> snapshot.demand_data
      [] source = "plant_1" -> snapshot.plant_1
      [] source = "plant_2" -> snapshot.plant_2

\* The analytics fields that are computed from a source
C15_DependentFields(source) ==
    CASE source = "pun" -> {"price_stats"}
      [] source = "zonal" -> {}
      [] source = "demand" -> {"demand_stats"}
      [] source = "plant_1" -> {"plant_1_stats"}
      [] source = "plant_2" -> {"plant_2_stats"}

\* The analytics fields the raw files give when every source is read
C15_FieldsOfLoaded ==
    {"price_stats", "demand_stats"}
        \cup (IF raw.plant_1 # <<>> THEN {"plant_1_stats"} ELSE {})
        \cup (IF raw.plant_2 # <<>> THEN {"plant_2_stats"} ELSE {})

\* C15: when one raw source cannot be read the snapshot is still produced,
\* the failed source is an empty series, every other source holds its
\* records, and the analytics lack only the fields computed from the
\* failed source.
C15_SourceFailureDegradesOneSource ==
    canon # <<>> =>
        /\ canon[1] # <<>>
        /\ \A source \in Sources :
               SourceSeries(canon[1], source) =
                   IF source \in raw.failed THEN <<>> ELSE C15_Loaded(source)
        /\ \A source \in raw.failed :
               DOMAIN canon[1].analytics =
                   C15_FieldsOfLoaded \ C15_DependentFields(source)

\* The key of metadata.total_records that counts a source
C20_CountKey(source) ==
    CASE source = "pun" -> "pun_prices"
      [] source = "zonal" -> "zonal_prices"
      [] source = "demand" -> "demand_data"
      [] source = "plant_1" -> "solar_plant_1"
      [] source = "plant_2" -> "solar_plant_2"

\* The service holds the dataset read back from the file the run wrote.
C20_Reloaded == canon # <<>> /\ artifact # <<>> /\ data = load_data(artifact)

\* C20: the dataset built by transform_all_data, saved by
\* save_transformed_data and read back by _load_data has, for each source,
\* as many records as before saving, and that many are recorded in
\* metadata.total_records.
C20_RoundTripKeepsRecordCounts ==
    C20_Reloaded =>
        \A source \in Sources :
            /\ Len(SourceSeries(data, source)) = Len(SourceSeries(canon[1], source))
            /\ Len(SourceSeries(data, source)) =
                   canon[1].total_records[C20_CountKey(source)]
            /\ data.total_records = canon[1].total_records

\* A reloaded dataset with two zonal records, one price record and no
\* demand record.
C20_Witness ==
    /\ C20_Reloaded
    /\ raw.failed = {}
    /\ Len(data.zonal_prices) = 2
    /\ Len(data.pun_prices) = 1
    /\ Len(data.demand_data) = 0
    /\ Len(data.plant_1) = 2
    /\ data.total_records.zonal_prices = 2

-----------------------------------------------------------------------------
(* SpecSignals: the latest price and the demand-response signal of both    *)
(* services over loaded price series.                                      *)

MaxPrices == 2

\* Price records as json.load yields them: a price in both units; NaN in
\* both (a cell to_numeric coerced); null in both; the MWh price alone.
PriceEntries ==
    {PunEntry(PyFloat(Num(12, 100)), PyFloat(Int2F(120))),
     PunEntry(PyFloat(Num(2501, 10000)), PyFloat(Num(2501, 10))),
     PunEntry(PyFloat(NaN), PyFloat(NaN)),
     PunEntry(PyNone, PyNone),
     [k \in {"price_eur_mwh"} |-> PyFloat(Int2F(200))],
     [k \in {"price_eur_mwh"} |-> PyFloat(Int2F(300))]}

\* Demand and plant readings at 12:00: a surplus, a deficit, no demand
SignalLoads ==
    {[demand_data |-> <<[hour |-> 12,
                         vals |-> [r \in {"Calabria"} |-> PyFloat(Int2F(1000))]]>>,
      plant_1 |-> <<Row(12, Int2F(100))>>, plant_2 |-> <<Row(12, Int2F(50))>>],
     [demand_data |-> <<[hour |-> 12,
                         vals |-> [r \in {"Calabria"} |-> PyFloat(Num(12346, 10))]]>>,
      plant_1 |-> <<Row(12, Int2F(100))>>, plant_2 |-> <<Row(12, Int2F(10))>>],
     [demand_data |-> <<>>,
      plant_1 |-> <<Row(12, Int2F(100))>>, plant_2 |-> <<Row(12, Int2F(50))>>]}

\* datetime.now(), in hours: 12:00
SignalNow == 108

SigRes(op, generation, consumption, out, drs) ==
    [op |-> op, generation |-> generation, consumption |-> consumption,
     out |-> out, drs |-> drs]

InitSignals ==
    /\ \E load \in SignalLoads, pun_prices \in SeqsUpTo(PriceEntries, MaxPrices) :
           data = [demand_data |-> load.demand_data, plant_1 |-> load.plant_1,
                   plant_2 |-> load.plant_2, pun_prices |-> pun_prices]
    /\ InitConfigLoaded
    /\ InitFrame
    /\ result = EngineIdle

\* _get_latest_pun_price_kwh(pun_prices) of both services
LatestPrice ==
    /\ result = EngineIdle
    /\ result' = SigRes("get_latest_pun_price_kwh", Zero, Zero,
                        <<get_latest_pun_price_kwh(data.pun_prices)>>,
                        <<drs_get_latest_pun_price_kwh(data.pun_prices)>>)
    /\ EngineFrame

\* get_demand_response_metrics() of both services, beside the current
\* generation and consumption
DemandResponse ==
    /\ result = EngineIdle
    /\ result' = SigRes("get_demand_response_metrics",
                        get_current_generation(HourOf(SignalNow), data),
                        get_current_consumption(HourOf(SignalNow), data,
                                                heap[svcConfig]),
                        <<get_demand_response_metrics(SignalNow, data,
                                                      heap[svcConfig])>>,
                        <<drs_get_demand_response_metrics(SignalNow, data,
                                                          heap[svcConfig])>>)
    /\ EngineFrame

NextSignals ==
    \/ LatestPrice
    \/ DemandResponse
    \/ EngineRespond

SpecSignals == InitSignals /\ [][NextSignals]_vars

\* The fields both demand-response signals carry
C30_SharedFields ==
    {"engagement", "potential_shed_kw", "price_signal_eur_kwh", "active_events",
     "recommendations"}

\* C30: DataPresentationService.get_demand_response_metrics and
\* DemandResponseService.get_demand_response_metrics return the same
\* engagement, potential shed, price signal, active events (their
\* timestamps apart) and recommendations.
C30_BothSignalsAgree ==
    result.op = "get_demand_response_metrics" =>
        \A field \in C30_SharedFields : result.out[1][field] = result.drs[1][field]

\* Both services answered in a deficit with a price above 0.2 EUR/kWh taken
\* from a record that has the MWh price alone: one event, two
\* recommendations.
C30_Witness ==
    /\ result.op = "get_demand_response_metrics"
    /\ FLt(result.generation, result.consumption)
    /\ data.pun_prices # <<>>
    /\ OnlyMwh(data.pun_prices[Len(data.pun_prices)])
    /\ Len(result.drs[1].active_events) = 1
    /\ Len(result.out[1].recommendations) = 2
    /\ result.out[1].price_signal_eur_kwh = Num(3, 10)
    /\ FGt(result.drs[1].potential_shed_kw, Zero)

\* A price field that is neither null nor NaN
C16_Present(value) == value.t # "none" /\ value.k = "num"

\* The usable price of a record: its kWh field if present, otherwise its
\* MWh field divided by 1000; <<>> when it has neither
C16_UsablePrice(entry) ==
    IF C16_Present(EntryGet(entry, "price_eur_kwh"))
    THEN <<ToFloat(entry["price_eur_kwh"])>>
    ELSE IF C16_Present(EntryGet(entry, "price_eur_mwh"))
    THEN <<FDiv(ToFloat(entry["price_eur_mwh"]), Int2F(1000))>>
    ELSE <<>>

RECURSIVE C16_LatestUsable(_, _)
C16_LatestUsable(pun_prices, i) ==
    IF i = 0 THEN Zero
    ELSE IF C16_UsablePrice(pun_prices[i]) # <<>>
    THEN C16_UsablePrice(pun_prices[i])[1]
    ELSE C16_LatestUsable(pun_prices, i - 1)

\* C16: the latest price of both services is the usable price of the most
\* recent record that has one -- records whose price fields are null or
\* NaN are skipped -- and 0 only when no record has a usable price.
C16_LatestPriceSkipsMissing ==
    result.op = "get_latest_pun_price_kwh" =>
        /\ result.out[1] = C16_LatestUsable(data.pun_prices, Len(data.pun_prices))
        /\ result.drs[1] = C16_LatestUsable(data.pun_prices, Len(data.pun_prices))

C17_DeficitAdvice == "Shift non-critical consumption to off-peak hours"

\* C17: in both services potential_shed_kW = max(0, 0.10 * current
\* consumption); there is exactly one active event if and only if the
\* latest known price of the series is strictly above 0.20 per kWh, with
\* reward_per_kWh = 0.5 * price and target reduction = the potential shed;
\* the deficit recommendation is present if and only if generation -
\* consumption is negative.
C17_DemandResponseSignal ==
    result.op = "get_demand_response_metrics" =>
        \A out \in {result.out[1], result.drs[1]} :
            LET price == C16_LatestUsable(data.pun_prices, Len(data.pun_prices))
                shed == FMax(Zero, FMul(Num(1, 10), result.consumption))
                net == FSub(result.generation, result.consumption)
            IN  /\ out.potential_shed_kw = shed
                /\ Len(out.active_events) = IF FGt(price, Num(2, 10)) THEN 1 ELSE 0
                /\ \A i \in 1..Len(out.active_events) :
                       /\ out.active_events[i].reward_per_kwh = FMul(Num(1, 2), price)
                       /\ out.active_events[i].target_reduction_kw = shed
                /\ (\E i \in 1..Len(out.recommendations) :
                        out.recommendations[i] = C17_DeficitAdvice) <=> FLt(net, Zero)

-----------------------------------------------------------------------------
(* SpecMetrics: the carbon metrics, the grid telemetry and the grid        *)
(* interaction metrics over loaded snapshots, under the default and under  *)
(* an updated configuration.                                               *)

MetRes(op, now, generation, consumption, out) ==
    [op |-> op, now |-> now, generation |-> generation,
     consumption |-> consumption, out |-> out]

\* The snapshots of the dashboard, and one whose plants produce 1000 kWh
\* over a day
InitMetrics ==
    /\ data \in DashSnapshots \cup
           {[demand_data |-> <<DashDemand(Int2F(1000))>>,
             plant_1 |-> <<Row(12, Int2F(600))>>, plant_2 |-> <<Row(12, Int2F(400))>>,
             pun_prices |-> DashPrices, analytics |-> DashAnalytics]}
    /\ heap \in {[o \in {"o1"} |-> CommunityConfigDocument(0)],
                 [o \in {"o1"} |-> StoredConfig]}
    /\ mgrCache = "o1"
    /\ svcConfig = "o1"
    /\ store = <<heap["o1"]>>
    /\ clock = 0
    /\ InitFrame
    /\ result = EngineIdle

\* get_carbon_metrics()
CarbonMetrics ==
    \E now \in DashNow :
        /\ result = EngineIdle
        /\ result' = MetRes("get_carbon_metrics", now, Zero, Zero,
                            <<get_carbon_metrics(now, data, heap[svcConfig])>>)
        /\ EngineFrame

\* get_grid_telemetry(), beside the current generation and consumption
GridTelemetry ==
    \E now \in DashNow :
        /\ result = EngineIdle
        /\ result' = MetRes("get_grid_telemetry", now,
                            get_current_generation(HourOf(now), data),
                            get_current_consumption(HourOf(now), data,
                                                    heap[svcConfig]),
                            <<get_grid_telemetry(now, data, heap[svcConfig])>>)
        /\ EngineFrame

\* _get_grid_interaction_metrics(generation_kw, consumption_kw, pun_prices)
GridInteraction ==
    \E generation \in PowerChoices, consumption \in PowerChoices :
        /\ result = EngineIdle
        /\ result' = MetRes("get_grid_interaction_metrics", 0,
                            generation, consumption,
                            <<get_grid_interaction_metrics(generation, consumption,
                                                           data.pun_prices)>>)
        /\ EngineFrame

NextMetrics ==
    \/ CarbonMetrics
    \/ GridTelemetry
    \/ GridInteraction
    \/ EngineRespond

SpecMetrics == InitMetrics /\ [][NextMetrics]_vars

\* The produced and the consumed kWh of the slots of a window
C18_Produced(days) ==
    SumOf(Produced(get_energy_trends(days, result.now, data, heap[svcConfig])))

C18_Consumed(days) ==
    SumOf(Consumed(get_energy_trends(days, result.now, data, heap[svcConfig])))

C18_Baseline ==
    IF FGt(C18_Consumed(1), Zero)
    THEN FMax(Zero, FMin(Int2F(1), FDiv(C18_Produced(1), C18_Consumed(1))))
    ELSE Zero

\* C18 as stated: the offsets are the produced kWh times 0.35.
C18_CarbonUnrounded ==
    result.op = "get_carbon_metrics" =>
        /\ result.out[1].total_offset_kg = FMul(C18_Produced(1), Num(35, 100))
        /\ result.out[1].cumulative_offset_kg = FMul(C18_Produced(30), Num(35, 100))
        /\ result.out[1].baseline_comparison = C18_Baseline

\* C18: total_offset_kg is the sum of the produced kWh of the 24 h window
\* times the emission factor 0.35, rounded to 2 decimals;
\* cumulative_offset_kg is the same over the 30-day window;
\* baseline_comparison is produced/consumed clamped to [0, 1] when
\* consumed > 0 and 0 otherwise.
C18_CarbonMetrics ==
    result.op = "get_carbon_metrics" =>
        /\ result.out[1].total_offset_kg =
               RoundTo(FMul(C18_Produced(1), Num(35, 100)), 100)
        /\ result.out[1].cumulative_offset_kg =
               RoundTo(FMul(C18_Produced(30), Num(35, 100)), 100)
        /\ result.out[1].baseline_comparison = C18_Baseline

\* 1000 kWh produced over the day: an offset of 350 kg, and 10500 kg over
\* 30 days.
C18_Witness ==
    /\ result.op = "get_carbon_metrics"
    /\ C18_Produced(1) = Int2F(1000)
    /\ result.out[1].total_offset_kg = Int2F(350)
    /\ result.out[1].cumulative_offset_kg = Int2F(10500)
    /\ FGt(result.out[1].baseline_comparison, Zero)
    /\ FLt(result.out[1].baseline_comparison, Int2F(1))

\* 1 - |generation - consumption| / max(consumption, 1), clamped to [0, 1]
C19_Stability(generation, consumption) ==
    FMax(Zero, FMin(Int2F(1),
                    FSub(Int2F(1), FDiv(FAbs(FSub(generation, consumption)),
                                        FMax(consumption, Int2F(1))))))

C19_Frequency == 
    FAdd(Int2F(50), FMul(Num(2, 10),
                         FSub(Num(1, 2), C19_Stability(result.generation,
                                                       result.consumption))))

C19_Voltage ==
    FAdd(Int2F(230), FMul(Int2F(5),
                          FSub(Num(1, 2), C19_Stability(result.generation,
                                                        result.consumption))))

\* consumption / max(mean consumption of the last 24 h, 1) * 100
C19_Load ==
    LET last24 == get_24h_energy_flow(result.now, data, heap[svcConfig])
        mean == FDiv(SumOf(Consumed(last24)), Int2F(24))
    IN  FMul(FDiv(result.consumption, FMax(mean, Int2F(1))), Int2F(100))

C19_SolarShare ==
    get_energy_source_breakdown(result.generation, result.consumption).solar

C19_NonNegative == FLe(Zero, result.generation) /\ FLe(Zero, result.consumption)

\* The stability index, and the ranges of the four telemetry values
C19_StabilityAndRanges ==
    /\ (result.op = "get_grid_interaction_metrics" /\ C19_NonNegative) =>
           result.out[1].stability_index =
               C19_Stability(result.generation, result.consumption)
    /\ (result.op = "get_grid_telemetry" /\ C19_NonNegative) =>
           /\ FLe(FAbs(FSub(result.out[1].frequency_hz, Int2F(50))), Num(1, 10))
           /\ FLe(FAbs(FSub(result.out[1].voltage_v, Int2F(230))), Num(5, 2))
           /\ FLe(Zero, result.out[1].load_pct)
           /\ FLe(result.out[1].load_pct, Int2F(100))
           /\ FLe(Zero, result.out[1].renewable_pct)
           /\ FLe(result.out[1].renewable_pct, Int2F(100))

\* C19 as stated: the four values are the formulas themselves.
C19_TelemetryUnrounded ==
    /\ C19_StabilityAndRanges
    /\ (result.op = "get_grid_telemetry" /\ C19_NonNegative) =>
           /\ result.out[1].frequency_hz = C19_Frequency
           /\ result.out[1].voltage_v = C19_Voltage
           /\ result.out[1].load_pct = C19_Load
           /\ result.out[1].renewable_pct = C19_SolarShare

\* C19: for non-negative generation and consumption the stability index
\* is 1 - |generation - consumption| / max(consumption, 1) clamped to
\* [0, 1]; the frequency is 50 + 0.2*(0.5 - stability) rounded to 2
\* decimals and the voltage 230 + 5*(0.5 - stability) rounded to 1
\* decimal, within 0.1 Hz and 2.5 V of the baselines; load_pct is
\* consumption / max(mean consumption of the last 24 h, 1) * 100 capped at
\* 100 and rounded to a whole number, renewable_pct the solar share
\* rounded to a whole number, both within [0, 100].
C19_GridTelemetry ==
    /\ C19_StabilityAndRanges
    /\ (result.op = "get_grid_telemetry" /\ C19_NonNegative) =>
           /\ result.out[1].frequency_hz = RoundTo(C19_Frequency, 100)
           /\ result.out[1].voltage_v = RoundTo(C19_Voltage, 10)
           /\ result.out[1].load_pct = RoundTo(FMin(Int2F(100), C19_Load), 1)
           /\ result.out[1].renewable_pct = RoundTo(C19_SolarShare, 1)

\* A consumption above the mean of the day: a load of 103.4 reported as
\* 100, and a frequency of 50.094 reported as 50.09.
C19_Witness ==
    /\ result.op = "get_grid_telemetry"
    /\ FGt(result.generation, Zero)
    /\ FGt(C19_Load, Int2F(100))
    /\ result.out[1].load_pct = Int2F(100)
    /\ C19_Frequency = Num(50094, 1000)
    /\ result.out[1].frequency_hz = Num(5009, 100)

-----------------------------------------------------------------------------
(* SpecQueries: every query operation of the engine, in any order, over    *)
(* the loaded snapshots of SpecMetrics.                                    *)

\* get_energy_source_breakdown(generation, consumption) between the other
\* queries
SourceBreakdown ==
    \E generation \in PowerChoices, consumption \in PowerChoices :
        /\ result = EngineIdle
        /\ result' = MetRes("get_energy_source_breakdown", 0,
                            generation, consumption,
                            <<get_energy_source_breakdown(generation, consumption)>>)
        /\ EngineFrame

NextQueries ==
    \/ CurrentGeneration
    \/ CurrentConsumption
    \/ NetAndExport
    \/ SourceBreakdown
    \/ EnergyFlow24h
    \/ EnergyTrends
    \/ GridTelemetry
    \/ CarbonMetrics
    \/ DemandResponse
    \/ EngineRespond

SpecQueries == InitMetrics /\ [][NextQueries]_vars

\* C23: every query operation of the engine leaves the loaded dataset
\* unchanged: no step of any sequence of queries changes the snapshot the
\* service holds, so it stays the one loaded at construction.
C23_QueriesLeaveDataset == [][data' = data]_vars

\* A query answered from a snapshot that holds demand, plant and price
\* records
C23_Witness ==
    /\ result.op = "get_demand_response_metrics"
    /\ data.demand_data # <<>>
    /\ data.plant_1 # <<>>
    /\ data.pun_prices # <<>>

-----------------------------------------------------------------------------
(* SpecInterleave: two concurrent calls to one CommunityConfigManager on   *)
(* the event loop, the database reachable throughout.  A call runs from    *)
(* one await of store I/O to the next without interruption; while it is    *)
(* suspended the other call may run.  result holds, per call, where it is  *)
(* suspended and what it holds.                                            *)

Tasks == {"t1", "t2"}

Call(op, kwargs) == [op |-> op, kwargs |-> kwargs]

\* The calls a request may make
CallChoices ==
    {Call("get_config", <<>>),
     Call("update_config", <<Kw("total_households", Int2F(1000))>>),
     Call("update_config", <<Kw("regional_to_community_scaling", Num(5, 1000))>>),
     Call("reset_config", <<>>)}

\* A call's frame: the await it is suspended at (pc), its local config or
\* default_config (a reference), the config_dict its pending update_one
\* carries, and whether it returned without raising.
TaskFrame(call, pc, config, pending, ok) ==
    [op |-> call.op, kwargs |-> call.kwargs, pc |-> pc, config |-> config,
     pending |-> pending, ok |-> ok]

\* CommunityConfigDocument(...) constructed by call t
Allocate(hp, t, doc) ==
    [o \in DOMAIN hp \cup {t} |-> IF o = t THEN doc ELSE hp[o]]

\* The code that follows "await self.get_config()" once it has returned the
\* object ref: get_config returns it; update_config runs
\* update_and_calculate on it in place and enters _save_config, which
\* takes config.dict() and suspends at update_one
AfterGetConfig(task, ref, hp) ==
    IF task.op = "get_config"
    THEN [heap |-> hp, task |-> TaskFrame(task, "done", ref, <<>>, TRUE)]
    ELSE LET upd == update_and_calculate(hp[ref], task.kwargs, clock)
             hp2 == [hp EXCEPT ![ref] = upd.doc]
         IN  IF ~upd.ok
             THEN [heap |-> hp2, task |-> TaskFrame(task, "done", ref, <<>>, FALSE)]
             ELSE [heap |-> hp2,
                   task |-> TaskFrame(task, "update_one", ref, <<upd.doc>>, FALSE)]

InterleaveFrame == UNCHANGED <<data, svcConfig, clock, raw, canon, artifact>>

\* A call starts and runs to its first await: get_config and update_config
\* with an empty cache suspend at find_one, with a cached config go on
\* with it; reset_config builds the defaults and suspends at update_one
Begin(t) ==
    /\ result[t].pc = "start"
    /\ IF result[t].op = "reset_config"
       THEN /\ heap' = Allocate(heap, t, CommunityConfigDocument(clock))
            /\ result' = [result EXCEPT ![t] =
                             TaskFrame(@, "update_one", t,
                                       <<CommunityConfigDocument(clock)>>, FALSE)]
       ELSE IF mgrCache = NoRef
       THEN /\ heap' = heap
            /\ result' = [result EXCEPT ![t].pc = "find_one"]
       ELSE LET c == AfterGetConfig(result[t], mgrCache, heap)
            IN  /\ heap' = c.heap
                /\ result' = [result EXCEPT ![t] = c.task]
    /\ UNCHANGED <<mgrCache, store>>
    /\ InterleaveFrame

\* "await collection.find_one" of _load_config returns: a stored document
\* becomes the cached config and the caller goes on; with none stored the
\* defaults are built and _save_config suspends at update_one
FindOne(t) ==
    /\ result[t].pc = "find_one"
    /\ IF store # <<>>
       THEN LET c == AfterGetConfig(result[t], t, Allocate(heap, t, store[1]))
            IN  /\ heap' = c.heap
                /\ mgrCache' = t
                /\ result' = [result EXCEPT ![t] = c.task]
       ELSE /\ heap' = Allocate(heap, t, CommunityConfigDocument(clock))
            /\ mgrCache' = mgrCache
            /\ result' = [result EXCEPT ![t] =
                             TaskFrame(@, "load_save", t,
                                       <<CommunityConfigDocument(clock)>>, FALSE)]
    /\ UNCHANGED store
    /\ InterleaveFrame

\* The update_one of the defaults in _load_config returns: the defaults
\* become the cached config and the caller goes on
LoadSave(t) ==
    /\ result[t].pc = "load_save"
    /\ store' = result[t].pending
    /\ mgrCache' = t
    /\ LET c == AfterGetConfig(result[t], t, heap)
       IN  /\ heap' = c.heap
           /\ result' = [result EXCEPT ![t] = c.task]
    /\ InterleaveFrame

\* The update_one of update_config or reset_config returns: the document
\* holds the config_dict and "self._config_cache = config" runs
UpdateOne(t) ==
    /\ result[t].pc = "update_one"
    /\ store' = result[t].pending
    /\ mgrCache' = result[t].config
    /\ result' = [result EXCEPT ![t] = TaskFrame(@, "done", @.config, <<>>, TRUE)]
    /\ UNCHANGED heap
    /\ InterleaveFrame

InitInterleave ==
    /\ data = FixedSnapshot
    /\ heap = <<>>
    /\ mgrCache = NoRef
    /\ svcConfig = NoRef
    /\ store \in {<<>>, <<CommunityConfigDocument(0)>>}
    /\ clock = 0
    /\ InitFrame
    /\ result \in [Tasks -> {TaskFrame(call, "start", NoRef, <<>>, FALSE) :
                                call \in CallChoices}]

NextInterleave ==
    \E t \in Tasks :
        \/ Begin(t)
        \/ FindOne(t)
        \/ LoadSave(t)
        \/ UpdateOne(t)

SpecInterleave == InitInterleave /\ [][NextInterleave]_vars

\* C28: when the concurrent calls have all returned, the cached config
\* equals the persisted one, and the persisted config holds what every
\* successful update named (no reset being among the calls).
C28_ConcurrentCallsStayConsistent ==
    (\A t \in Tasks : result[t].pc = "done") =>
        /\ mgrCache # NoRef => (store # <<>> /\ heap[mgrCache] = store[1])
        /\ (\A t \in Tasks : result[t].op # "reset_config") =>
               \A t \in Tasks :
                   (result[t].op = "update_config" /\ result[t].ok)
                       => (store # <<>> /\ C21_NamedHold(result[t].kwargs, store[1]))

====
